---- MODULE Spec2Model ----
(***************************************************************************)
(* viaconstructor: the toolpath sequencer (gcode.py, polylines2gcode) and  *)
(* the configuration boundary that feeds it (viaconstructor.py).           *)
(*                                                                         *)
(* Lengths are integers: the sequencer in model units, the step-down of    *)
(* the configuration in hundredths of a millimetre.  A Z value is the      *)
(* exact fraction zn / zd.  The vertices are drawn from a point set whose  *)
(* pairwise Euclidean distances are integers, so calc_distance is exact.   *)
(***************************************************************************)
EXTENDS Integers, Sequences, FiniteSets, TLC

\* ------------------------------------------------------------------ bounds

\* most offset polylines in project["offsets"]
MaxPolylines == 2
\* largest nesting level of a polyline, and largest maxOuter
MaxLevel == 1
\* deepest step-down (magnitude) in the pass-depth inputs
MaxStep == 2
\* deepest target depth (magnitude) in the pass-depth inputs
MaxDepth == 3
\* largest step-down magnitude, in 0.01 mm, a setup file, a layer name or a widget gives
MaxCfgStep == 6
\* most objects of a drawing
MaxObjects == 2

\* ------------------------------------------------------------------ state

VARIABLES
    polylines,    \* project["offsets"]: offset_num -> polyline (dict order = index order)
    maxOuter,     \* project["maxOuter"]
    pc,           \* position in polylines2gcode: "select", "pass", "retract", "done"
    level,        \* loop variable of the level loop
    milling,      \* the visited dict, as the sequence of its keys in insertion order
    last_pos,     \* tool position of the nearest search
    order,        \* running order number
    nearest_idx,  \* the selected offset_num (0: none yet)
    nearest_point,\* the selected entry point (0-based, as in the code)
    points,       \* the traversal list of the selected polyline
    is_closed,    \* polyline.is_closed() of the selected polyline
    helix_mode,   \* local helix_mode
    depth,        \* local depth of the pass loop
    last_depth,   \* local last_depth of the pass loop
    obj_distance, \* contour length of the selected polyline
    gcode,        \* the emitted lines that carry motion or structure
    selections,   \* history: one record per selection (what the search saw and chose)
    phase,        \* position in ViaConstructor.__init__: "setup", "drawing", "gui", "exited";
                  \* "kernel" while only the sequencer is looked at
    status,       \* project["status"]
    draw_reader,  \* whether self.draw_reader is set (a drawing is loaded)
    setup_step,   \* project["setup"]["mill"]["step"], in 0.01 mm
    widget_step,  \* the value of the global step spin box
    objects,      \* project["objects"]: per object its setup["mill"] step and depth
    kernel_steps, \* the steps of the objects the last recalculation gave the sequencer
    setup_depth,  \* project["setup"]["mill"]["depth"], in 0.01 mm
    widget_depth, \* the value of the global depth spin box
    kernel_depths,\* the depths of the objects the last recalculation gave the sequencer
    gc_before,    \* history: the setup's step and depth and the objects as global_changed
                  \* found them, if the last handler called it (NoGc otherwise)
    segments_org, \* project["segments_org"]: the raw segments of the drawing
    obj_segments, \* project["objects"]: per object its segments (start and end points)
    calc_setup,   \* project["setup"]: workpiece zero, machine unit and plugin, tool diameter
    minMax,       \* project["minMax"]
    offsets,      \* project["offsets"]
    machine_cmd,  \* project["machine_cmd"]
    exit_status,  \* the status the process exited with; -1 while it runs
    calc_ran,     \* history: whether the last handler ran run_calculation past its guard
    calc_before,  \* history: objects, raw segments, setup and machine_cmd at that call
    pp_gcode,     \* PostProcessorGcodeLinuxCNC.gcode: the motion lines, each with the
                  \* number of the call that appended it (history)
    x_pos,        \* PostProcessorGcodeLinuxCNC.x_pos
    y_pos,        \* PostProcessorGcodeLinuxCNC.y_pos
    z_pos,        \* PostProcessorGcodeLinuxCNC.z_pos
    pp_calls,     \* history: the motion calls made on the writer, in order
    pp_scale,     \* PostProcessorGcodeLinuxCNC.scale: "mm" for 1.0, "inch" for 1.0 / 25.4
    pp_offsets,   \* PostProcessorGcodeLinuxCNC.offsets, in mm
    offsets_reset, \* PostProcessorGcodeLinuxCNC.offsets_reset
    pp_setup,     \* history: the calls of unit, machine_offsets and program_end, in
                  \* order, each with the lines it appended to gcode and the number of
                  \* motion calls made before it
    pp_mach,      \* history: where the words written so far put the machine, per axis
                  \* in mm (None before the first word of the axis)
    fn_name,      \* calc.py: the function applied last ("input" before any)
    fn_arg,       \* calc.py: the argument the first function was applied to
    fn_idx,       \* calc.py: the idx argument of rotate_list
    fn_res,       \* calc.py: the value returned last
    ed_objects,   \* project["objects"] in the editor: id -> segments, closed, outer_objects
    ed_maxOuter,  \* project["maxOuter"]
    ed_call,      \* history: the last call of find_tool_offsets: caller, objects, result
    ed_from,      \* history: the maxOuter the last recalculation counted the levels from
    ed_pick,      \* history: the last pick of a start point: object, segment, point and
                  \* the segments of the object before it
    ed_picks,     \* history: the number of picks since the drawing was loaded
    selector_mode, \* GLWidget.selector_mode
    ortho,        \* GLWidget.ortho
    rot,          \* GLWidget.rot_x, rot_y, rot_z
    rot_last,     \* GLWidget.rot_x_last, rot_y_last, rot_z_last
    mbutton,      \* GLWidget.mbutton: None, 1, 2 or 4
    toolbuttons,  \* the selector modes whose toolbar action (toolbuttons[title][7]) is
                  \* checked
    gl_event,     \* history: the last event of the widget or its toolbar: its name, its
                  \* argument, the selector mode it found and what the toggle returned
    pj_status,    \* project["status"], for the handlers of layers and setup
    pj_pc,        \* the handler that has set the status to "CHANGE" and not yet returned
                  \* ("idle": none)
    mill_active,  \* project["setup"]["mill"]["active"]
    pj_layers,    \* project["layers"]: layer -> enabled
    pj_objects,   \* project["objects"]: per object its layer and setup["mill"]["active"]
    tabs_data,    \* project["tabs"]["data"]: per entry the object whose segment it is
    pj_event,     \* history: the last handler: its name, its argument, the status it
                  \* found and whether it ran find_tool_offsets and update_drawing
    pj_before,    \* history: mill_active, the objects, the layers and the tab data as
                  \* that handler found them, for global_changed, object_changed and
                  \* toggle_layer
    simulation,      \* project["simulation"]
    simulation_last, \* project["simulation_last"], a position along one axis
    simulation_data, \* project["simulation_data"]: per entry the position p_to
    sim_event        \* history: the last event of the simulation and the value of
                     \* project["simulation"] it found

seqVars == <<polylines, maxOuter, pc, level, milling, last_pos, order, nearest_idx,
             nearest_point, points, is_closed, helix_mode, depth, last_depth,
             obj_distance, gcode, selections>>

cfgVars == <<phase, status, draw_reader, gc_before, setup_step, widget_step, objects, kernel_steps,
             setup_depth, widget_depth, kernel_depths>>

calcVars == <<segments_org, obj_segments, calc_setup, minMax, offsets, machine_cmd,
              exit_status, calc_ran, calc_before>>

cfgStepVars == <<gc_before, setup_step, widget_step, objects, kernel_steps, setup_depth, widget_depth,
                 kernel_depths>>

ppVars == <<pp_gcode, x_pos, y_pos, z_pos, pp_calls, pp_scale, pp_offsets, offsets_reset,
           pp_setup, pp_mach>>

fnVars == <<fn_name, fn_arg, fn_idx, fn_res>>

edVars == <<ed_objects, ed_maxOuter, ed_call, ed_from, ed_pick, ed_picks>>

glVars == <<selector_mode, ortho, rot, rot_last, mbutton, toolbuttons, gl_event>>

pjVars == <<pj_status, pj_pc, mill_active, pj_layers, pj_objects, tabs_data, pj_event, pj_before>>

simVars == <<simulation, simulation_last, simulation_data, sim_event>>

vars == <<seqVars, cfgVars, calcVars, ppVars, fnVars, edVars, glVars, pjVars, simVars>>

\* what the actions of one component leave alone
restOfSeq == <<cfgVars, calcVars, ppVars, fnVars, edVars, glVars, pjVars, simVars>>
restOfCfg == <<seqVars, calcVars, ppVars, fnVars, edVars, glVars, pjVars, simVars>>
restOfCalc == <<seqVars, cfgStepVars, ppVars, fnVars, edVars, glVars, pjVars, simVars>>
restOfWriter == <<seqVars, cfgVars, calcVars, fnVars, edVars, glVars, pjVars, simVars>>
restOfFn == <<seqVars, cfgVars, calcVars, ppVars, edVars, glVars, pjVars, simVars>>
restOfEd == <<seqVars, cfgVars, calcVars, ppVars, fnVars, glVars, pjVars, simVars>>
restOfGl == <<seqVars, cfgVars, calcVars, ppVars, fnVars, edVars, pjVars, simVars>>
restOfPj == <<seqVars, cfgVars, calcVars, ppVars, fnVars, edVars, glVars, simVars>>
restOfSim == <<seqVars, cfgVars, calcVars, ppVars, fnVars, edVars, glVars, pjVars>>

\* ------------------------------------------------------------------ components at rest

\* project["minMax"], project["offsets"], project["machine_cmd"] as load_drawing and
\* the class body set them: [], {} and ""
NoMinMax == <<>>
NoOffsets == [diameter |-> 0, objects |-> <<>>]
NoMachineCmd == [plugin |-> "", offsets |-> NoOffsets]

NoSetup == [zero |-> "original", unit |-> "mm", plugin |-> "gcode_linuxcnc", diameter |-> 0]

\* "self.x_pos: float = None": the value no coordinate has
None == -1

\* no call of find_tool_offsets yet, no pick yet
NoCall == [by |-> "", objects |-> <<>>, result |-> None]
NoPick == [obj |-> None, seg |-> None, point |-> <<>>, before |-> <<>>]

\* the editor is not looked at
\* no event of the widget yet
NoEvent == <<"", None, "", FALSE>>

\* the 3D view of the class body: rot_x, rot_y, rot_z = -20.0, -30.0, 0.0
View3d == <<-20, -30, 0>>

\* the widget is not looked at: the attributes of the class body
GlIdle ==
    /\ selector_mode = ""
    /\ ortho = FALSE
    /\ rot = View3d
    /\ rot_last = View3d
    /\ mbutton = None
    /\ toolbuttons = {}
    /\ gl_event = NoEvent

\* no handler of layers and setup yet
NoHandler == <<"", None, "", FALSE>>

\* the layers and the setup are not looked at
PjIdle ==
    /\ pj_status = "INIT"
    /\ pj_pc = "idle"
    /\ mill_active = TRUE
    /\ pj_layers = <<>>
    /\ pj_objects = <<>>
    /\ tabs_data = <<>>
    /\ pj_event = NoHandler
    /\ pj_before = <<>>

\* the simulation is not looked at: the values of the project dict at its creation
SimIdle ==
    /\ simulation = -1
    /\ simulation_last = 0
    /\ simulation_data = <<>>
    /\ sim_event = <<"", None>>

EdIdle ==
    /\ ed_objects = <<>>
    /\ ed_maxOuter = None
    /\ ed_call = NoCall
    /\ ed_from = None
    /\ ed_pick = NoPick
    /\ ed_picks = 0

\* the functions of calc.py are not looked at; nor is the editor
FnIdle ==
    /\ fn_name = "idle"
    /\ fn_arg = <<>>
    /\ fn_idx = 0
    /\ fn_res = <<>>
    /\ EdIdle
    /\ GlIdle
    /\ PjIdle
    /\ SimIdle

\* the writer is not looked at
WriterIdle ==
    /\ pp_gcode = <<>>
    /\ x_pos = None
    /\ y_pos = None
    /\ z_pos = None
    /\ pp_calls = <<>>
    /\ pp_scale = "mm"
    /\ pp_offsets = <<0, 0, 0>>
    /\ offsets_reset = FALSE
    /\ pp_setup = <<>>
    /\ pp_mach = <<None, None, None>>

\* the recalculation is not looked at
CalcIdle ==
    /\ segments_org = <<>>
    /\ obj_segments = <<>>
    /\ calc_setup = NoSetup
    /\ minMax = NoMinMax
    /\ offsets = NoOffsets
    /\ machine_cmd = NoMachineCmd
    /\ exit_status = -1
    /\ calc_ran = FALSE
    /\ calc_before = [obj |-> <<>>, org |-> <<>>, setup |-> NoSetup, cmd |-> NoMachineCmd]

\* ------------------------------------------------------------------ helpers (calc.py)

\* exact square root on the squares the model's point set produces
Sqrt(n) == CHOOSE r \in 0..n : r * r = n

\* calc.calc_distance: Euclidean norm of the XY difference (calc.py's functions are
\* written from their documented behaviour and from tests/test_calc.py)
calc_distance(p, q) == Sqrt((p[1] - q[1]) * (p[1] - q[1]) + (p[2] - q[2]) * (p[2] - q[2]))

\* calc.vertex2points: parallel arrays (xs, ys, bulges) -> list of (x, y, bulge)
vertex2points(vd) == [i \in 1..Len(vd[1]) |-> <<vd[1][i], vd[2][i], vd[3][i]>>]

\* l[-k:] + l[:-k]: the rotation the other way
rotate_list_right(l, k) == SubSeq(l, Len(l) - k + 1, Len(l)) \o SubSeq(l, 1, Len(l) - k)
\* calc.rotate_list(l, k) == l[k:] + l[:k]   (k is 0-based)
rotate_list(l, k) == SubSeq(l, k + 1, Len(l)) \o SubSeq(l, 1, k)

\* list.reverse()
Reverse(l) == [i \in 1..Len(l) |-> l[Len(l) + 1 - i]]

XY(p) == <<p[1], p[2]>>

\* ------------------------------------------------------------------ inputs

\* A polyline of project["offsets"] as polylines2gcode reads it: vertex_data() are the
\* parallel arrays (xs, ys, bulges), mill is the object's setup["mill"].
Polyline(vd, closed, lvl, active, helix, step, dpt) ==
    [vertex_data |-> vd, closed |-> closed, level |-> lvl,
     mill |-> [active |-> active, helix_mode |-> helix, step |-> step, depth |-> dpt]]

\* Contours of the sequencing inputs.  All vertices lie in
\* {(-3,0), (3,0), (0,4), (0,-4)}: every pairwise distance, and every distance to the
\* origin, is an integer (3, 4, 5, 6 or 8).  Every contour has two or more distinct
\* vertices (for a contour of length 0 the helix ramp would divide by obj_distance = 0)
\* and a step below 0 (with step >= 0 the pass loop does not end).
SeqShapes ==
    { [vd |-> << <<3, 0, -3>>, <<0, 4, 0>>, <<0, 1, -1>> >>, closed |-> TRUE],
      [vd |-> << <<0, 0>>, <<4, -4>>, <<1, 1>> >>,           closed |-> TRUE],
      [vd |-> << <<-3, 0, 3>>, <<0, 4, 0>>, <<1, -1, 0>> >>, closed |-> FALSE],
      [vd |-> << <<0, 3>>, <<-4, 0>>, <<0, 0>> >>,           closed |-> FALSE] }

SeqPolylines ==
    { Polyline(s.vd, s.closed, l, a, FALSE, -1, -2) :
        s \in SeqShapes, l \in 0..MaxLevel, a \in BOOLEAN }

\* Vertex paths of the pass-depth inputs; the bulges are free.
PassPaths ==
    { << <<-3, 0, 3>>, <<0, 4, 0>> >>,
      << <<0, -3, 3>>, <<4, 0, 0>> >>,
      << <<0, 0>>, <<4, -4>> >> }

Bulges == {-1, 0, 1}

PassPolylines ==
    UNION { { Polyline(<<p[1], p[2], b>>, c, 0, TRUE, h, st, d) :
                b \in [1..Len(p[1]) -> Bulges], c \in BOOLEAN, h \in BOOLEAN,
                st \in (-MaxStep)..(-1), d \in (-MaxDepth)..0 } :
            p \in PassPaths }

\* ------------------------------------------------------------------ output lines

Line(cmd, obj, lvl, fi, ti, from, to, zn, zd) ==
    [cmd |-> cmd, obj |-> obj, lvl |-> lvl, fi |-> fi, ti |-> ti,
     from |-> from, to |-> to, zn |-> zn, zd |-> zd]

\* G00 Z{fast_move_z}
RetractLine(obj) == Line("G00Z", obj, 0, 0, 0, <<0, 0>>, <<0, 0>>, 0, 1)
\* G00 X.. Y..
RapidLine(obj, p) == Line("G00XY", obj, 0, 0, 0, <<0, 0>>, XY(p), 0, 1)
\* the object's comment block: (Level: ..) (Order: ..) (Object: ..)
HeaderLine(obj, lvl, ord) == Line("header", obj, lvl, ord, 0, <<0, 0>>, <<0, 0>>, 0, 1)
\* (- Depth: ..mm -)
DepthLine(obj, d) == Line("depth", obj, 0, 0, 0, <<0, 0>>, <<0, 0>>, d, 1)
\* G01 Z..
PlungeLine(obj, z) == Line("G01Z", obj, 0, 0, 0, <<0, 0>>, <<0, 0>>, z, 1)

CutCmds == {"G01", "G02", "G03"}

\* gcode_begin: ... G00 Z{fast_move_z}, G00 X0.0 Y0.0
gcode_begin == << RetractLine(0), RapidLine(0, <<0, 0>>) >>

\* a line that moves nothing: (- end -), M05
PlainLine(cmd) == Line(cmd, 0, 0, 0, 0, <<0, 0>>, <<0, 0>>, 0, 1)

\* gcode_end: (- end -), G00 Z{fast_move_z}, M05, and G00 X0.0 Y0.0 with back_home
gcode_end(back_home) ==
    << PlainLine("end"), RetractLine(0), PlainLine("M05") >>
    \o (IF back_home THEN << RapidLine(0, <<0, 0>>) >> ELSE <<>>)


\* ------------------------------------------------------------------ nearest search

\* mutant: the scan forgets the active flag
EligibleIgnoresActive(n) ==
    /\ \A k \in 1..Len(milling) : milling[k] # n
    /\ polylines[n].level = level

\* the filter of the scan: not yet milled, of the current level, active
Eligible(n) ==
    /\ \A k \in 1..Len(milling) : milling[k] # n
    /\ polylines[n].level = level
    /\ polylines[n].mill.active

\* The entry points the scan compares for polyline n, in the order it meets them, each
\* <<offset_num, point_num, dist>>: every vertex of a closed polyline, the first and the
\* last point of an open one.
Candidates(n) ==
    LET pts == vertex2points(polylines[n].vertex_data)
    IN  IF polylines[n].closed
        THEN [k \in 1..Len(pts) |-> <<n, k - 1, calc_distance(last_pos, pts[k])>>]
        ELSE << <<n, 0, calc_distance(last_pos, pts[1])>>,
                <<n, Len(pts) - 1, calc_distance(last_pos, pts[Len(pts)])>> >>

RECURSIVE AllCandidates(_)
AllCandidates(n) ==
    IF n = 0 THEN <<>>
    ELSE AllCandidates(n - 1) \o (IF Eligible(n) THEN Candidates(n) ELSE <<>>)

\* mutant: "<=" for "<", the candidate met last wins a tie
NearerOrEqual(c, best) == best = <<>> \/ c[3] <= best[3]

\* "if nearest_dist is None or dist < nearest_dist": does candidate c replace best?
Nearer(c, best) == best = <<>> \/ c[3] < best[3]

RECURSIVE Scan(_, _, _)
Scan(cands, i, best) ==
    IF i > Len(cands) THEN best
    ELSE Scan(cands, i + 1, IF Nearer(cands[i], best) THEN cands[i] ELSE best)

\* the result of one run of the for loop: <<>> (found = False) or the chosen candidate
Nearest == Scan(AllCandidates(Len(polylines)), 1, <<>>)

\* ------------------------------------------------------------------ traversal list

\* mutant: the bulge array reversed and negated, but not rotated
ReversedBulgeUnrotated(bulge) ==
    LET r == Reverse(bulge)
    IN  [i \in 1..Len(r) |-> -r[i]]

\* "redir open line and reverse bulge": both coordinate arrays reversed, the bulge
\* array reversed, rotated by one and negated
ReversedBulge(bulge) ==
    LET r == rotate_list(Reverse(bulge), 1)
    IN  [i \in 1..Len(r) |-> -r[i]]

ReversedPoints(vd) == vertex2points(<<Reverse(vd[1]), Reverse(vd[2]), ReversedBulge(vd[3])>>)

\* mutant: a closed polyline is not rotated to its nearest vertex
TraversalUnrotated(pl, np) ==
    IF pl.closed THEN vertex2points(pl.vertex_data)
    ELSE IF np # 0 THEN ReversedPoints(pl.vertex_data)
    ELSE vertex2points(pl.vertex_data)

\* the points list the passes run over
Traversal(pl, np) ==
    IF pl.closed THEN rotate_list(vertex2points(pl.vertex_data), np)
    ELSE IF np # 0 THEN ReversedPoints(pl.vertex_data)
    ELSE vertex2points(pl.vertex_data)

\* "get object distance"
RECURSIVE PathLength(_, _)
PathLength(pts, k) ==
    IF k <= 1 THEN 0 ELSE PathLength(pts, k - 1) + calc_distance(pts[k], pts[k - 1])

ObjDistance(pts, closed) ==
    PathLength(pts, Len(pts)) + (IF closed THEN calc_distance(pts[Len(pts)], pts[1]) ELSE 0)

\* ------------------------------------------------------------------ one pass

\* the command of a move, from the bulge it is given
MoveCmd(bulge) == IF bulge > 0 THEN "G03" ELSE IF bulge < 0 THEN "G02" ELSE "G01"

\* mutant: the bulge of the move's target vertex
MoveBulgeOfTarget(last, point) == point[3]

\* the bulge the loop reads for the move last -> point: "bulge = last[2]"
MoveBulge(last, point) == last[3]

\* mutant: every ramp starts at Z 0 instead of the depth of the pass before
SetDepthFromZero(helix, trav, objd, d, ld) ==
    IF helix THEN <<trav * d, objd>> ELSE <<d, 1>>

\* set_depth of a move, as the fraction <<zn, zd>>:
\* helix: last_depth + trav_distance / obj_distance * (depth - last_depth); else depth
SetDepth(helix, trav, objd, d, ld) ==
    IF helix THEN <<ld * objd + trav * (d - ld), objd>> ELSE <<d, 1>>

\* the move of loop iteration k of "for point in points": last is the point before
\* (points[0] itself in the first iteration)
LoopMove(obj, pts, k, helix, objd, d, ld) ==
    LET fi == IF k = 1 THEN 1 ELSE k - 1
        z  == SetDepth(helix, PathLength(pts, k), objd, d, ld)
    IN  Line(MoveCmd(MoveBulge(pts[fi], pts[k])), obj, 0, fi, k,
             XY(pts[fi]), XY(pts[k]), z[1], z[2])

\* the closing move of a closed polyline: last point -> points[0]
ClosingMove(obj, pts, helix, objd, d, ld) ==
    LET n == Len(pts)
        z == SetDepth(helix, PathLength(pts, n) + calc_distance(pts[1], pts[n]), objd, d, ld)
    IN  Line(MoveCmd(MoveBulge(pts[n], pts[1])), obj, 0, n, 1,
             XY(pts[n]), XY(pts[1]), z[1], z[2])

\* mutant: the pass depth is not clamped to the target depth
ClampDepthMissing(d, target) == d

\* "if depth < polyline.mill['depth']: depth = polyline.mill['depth']"
ClampDepth(d, target) == IF d < target THEN target ELSE d

\* mutant: an open polyline's pass moves to its first point without the retract
PassApproachNoRetract(obj, pts, closed) ==
    IF closed THEN <<>> ELSE << RapidLine(obj, pts[1]) >>

\* lines 169-173: every pass over an open polyline starts with a retract and a rapid
\* move to points[0]
PassApproach(obj, pts, closed) ==
    IF closed THEN <<>> ELSE << RetractLine(obj), RapidLine(obj, pts[1]) >>

\* the lines of one iteration of the pass loop, at the clamped depth d
PassLines(obj, pts, closed, helix, objd, d, ld) ==
    << DepthLine(obj, d) >>
    \o PassApproach(obj, pts, closed)
    \o << PlungeLine(obj, IF helix THEN ld ELSE d) >>
    \o [k \in 1..Len(pts) |-> LoopMove(obj, pts, k, helix, objd, d, ld)]
    \o (IF closed THEN << ClosingMove(obj, pts, helix, objd, d, ld) >> ELSE <<>>)

\* ------------------------------------------------------------------ polylines2gcode

\* mutant: the level loop counts up, range(0, maxOuter + 1)
LevelRangeAscending(mo) == [i \in 1..(mo + 1) |-> i - 1]

\* the levels the level loop runs over, in order: range(maxOuter, -1, -1)
LevelRange(mo) == [i \in 1..(mo + 1) |-> mo + 1 - i]

\* the position of the level loop: the levels of the range are distinct
LevelPos == CHOOSE i \in 1..Len(LevelRange(maxOuter)) : LevelRange(maxOuter)[i] = level

RECURSIVE SeqsUpTo(_, _)
SeqsUpTo(S, n) ==
    IF n = 0 THEN { <<>> }
    ELSE SeqsUpTo(S, n - 1) \cup { Append(q, e) : q \in { r \in SeqsUpTo(S, n - 1) : Len(r) = n - 1 }, e \in S }

\* no call of global_changed to speak of
NoGc == [step |-> 0, depth |-> 0, objects |-> <<>>, called |-> FALSE]

GcBefore(st, dp, objs) == [step |-> st, depth |-> dp, objects |-> objs, called |-> TRUE]

\* the configuration side is not looked at
CfgIdle ==
    /\ phase = "kernel"
    /\ status = "INIT"
    /\ draw_reader = FALSE
    /\ setup_step = 0
    /\ widget_step = 0
    /\ objects = <<>>
    /\ kernel_steps = <<>>
    /\ setup_depth = 0
    /\ widget_depth = 0
    /\ kernel_depths = <<>>
    /\ gc_before = NoGc

\* lines 48-55: the locals before the level loop, gcode_begin emitted
Start(pls, mo) ==
    /\ polylines = pls
    /\ maxOuter = mo
    /\ pc = "select"
    /\ level = LevelRange(mo)[1]
    /\ milling = <<>>
    /\ last_pos = <<0, 0>>
    /\ order = 0
    /\ nearest_idx = 0
    /\ nearest_point = 0
    /\ points = <<>>
    /\ is_closed = FALSE
    /\ helix_mode = FALSE
    /\ depth = 0
    /\ last_depth = 0
    /\ obj_distance = 0
    /\ gcode = gcode_begin
    /\ selections = <<>>
    /\ CfgIdle
    /\ CalcIdle
    /\ WriterIdle
    /\ FnIdle

\* sequencing inputs: up to MaxPolylines polylines on levels 0..MaxLevel
InitSeq == \E pls \in SeqsUpTo(SeqPolylines, MaxPolylines), mo \in 0..MaxLevel : Start(pls, mo)

\* pass-depth inputs: one polyline, every bulge, step, depth and helix setting
InitPass == \E pl \in PassPolylines : Start(<<pl>>, 0)

Init == InitSeq \/ InitPass

\* mutant: the start point, also for an open polyline
ExitPointAlwaysStart(pts, closed) == XY(pts[1])

\* the tool position after a polyline: points[0] if closed, else points[-1]
ExitPoint(pts, closed) == IF closed THEN XY(pts[1]) ELSE XY(pts[Len(pts)])

\* lines 57-160: the scan found a polyline; it is marked, its traversal list built,
\* its header emitted, and the pass loop's locals are set
SelectNearest ==
    /\ pc = "select"
    /\ Nearest # <<>>
    /\ \E found \in {Nearest} :
       LET n   == found[1]
           np  == found[2]
           pl  == polylines[n]
           pts == Traversal(pl, np)
       IN  /\ nearest_idx' = n
           /\ nearest_point' = np
           /\ milling' = Append(milling, n)
           /\ points' = pts
           /\ is_closed' = pl.closed
           /\ helix_mode' = pl.mill.helix_mode
           /\ obj_distance' = ObjDistance(pts, pl.closed)
           /\ gcode' = gcode \o << HeaderLine(n, level, order) >>
                       \o (IF pl.closed THEN << RetractLine(n), RapidLine(n, pts[1]) >> ELSE <<>>)
           /\ depth' = pl.mill.step
           /\ last_depth' = 0
           /\ selections' = Append(selections,
                 [idx |-> n, point |-> np, from |-> last_pos, lvl |-> level, pts |-> pts])
    /\ pc' = "pass"
    /\ UNCHANGED <<polylines, maxOuter, level, last_pos, order>>
    /\ UNCHANGED restOfSeq

\* mutant: the loop is left after the pass that reaches the target, helix or not
AfterTargetPassBreaks(helix) == "retract"

\* lines 292-296, after a pass at the target depth: with helix_mode the loop continues
\* (helix_mode switched off, depth unchanged), else it breaks
AfterTargetPass(helix) == IF helix THEN "pass" ELSE "retract"

\* mutant: the depth of the next pass is the depth of this one
NextDepthStays(d, step) == d

\* line 297: "depth += polyline.mill['step']"
NextDepth(d, step) == d + step

\* lines 163-297: one iteration of the pass loop
MillPass ==
    /\ pc = "pass"
    /\ LET pl == polylines[nearest_idx]
           d  == ClampDepth(depth, pl.mill.depth)
       IN  /\ gcode' = gcode \o PassLines(nearest_idx, points, is_closed, helix_mode,
                                          obj_distance, d, last_depth)
           /\ last_depth' = d
           /\ IF d <= pl.mill.depth
              THEN /\ helix_mode' = FALSE
                   /\ depth' = d
                   /\ pc' = AfterTargetPass(helix_mode)
              ELSE helix_mode' = helix_mode /\ depth' = NextDepth(d, pl.mill.step) /\ pc' = "pass"
    /\ UNCHANGED <<polylines, maxOuter, level, milling, last_pos, order, nearest_idx,
                   nearest_point, points, is_closed, obj_distance, selections>>
    /\ UNCHANGED restOfSeq

\* lines 299-307: retract, move the search position to the exit point, count the order
Retract ==
    /\ pc = "retract"
    /\ gcode' = Append(gcode, RetractLine(nearest_idx))
    /\ last_pos' = ExitPoint(points, is_closed)
    /\ order' = order + 1
    /\ pc' = "select"
    /\ UNCHANGED <<polylines, maxOuter, level, milling, nearest_idx, nearest_point, points,
                   is_closed, helix_mode, depth, last_depth, obj_distance, selections>>
    /\ UNCHANGED restOfSeq

\* lines 308-309 and 56: nothing found on this level, the level loop goes on
NextLevel ==
    /\ pc = "select"
    /\ Nearest = <<>>
    /\ LevelPos < Len(LevelRange(maxOuter))
    /\ level' = LevelRange(maxOuter)[LevelPos + 1]
    /\ UNCHANGED <<polylines, maxOuter, pc, milling, last_pos, order, nearest_idx,
                   nearest_point, points, is_closed, helix_mode, depth, last_depth,
                   obj_distance, gcode, selections>>
    /\ UNCHANGED restOfSeq

\* lines 311-312: the level loop is over, gcode_end is emitted
Finish ==
    /\ pc = "select"
    /\ Nearest = <<>>
    /\ LevelPos = Len(LevelRange(maxOuter))
    /\ \E back_home \in BOOLEAN : gcode' = gcode \o gcode_end(back_home)
    /\ pc' = "done"
    /\ UNCHANGED <<polylines, maxOuter, level, milling, last_pos, order, nearest_idx,
                   nearest_point, points, is_closed, helix_mode, depth, last_depth,
                   obj_distance, selections>>
    /\ UNCHANGED restOfSeq

Next == SelectNearest \/ MillPass \/ Retract \/ NextLevel \/ Finish

Spec == Init /\ [][Next]_vars

\* polylines2gcode runs on: no statement of it waits for anything
SpecLive == Init /\ [][Next]_vars /\ WF_vars(Next)

\* ------------------------------------------------------------------ configuration boundary

Abs(n) == IF n < 0 THEN -n ELSE n

\* "self.project['setup']['mill']['step'] = -0.05", in 0.01 mm
StepFloor == -5

\* setup_defaults()["mill"]["step"]["default"]
DefaultStep == -5

\* setup_defaults()["mill"]["depth"]["default"], in 0.01 mm
DefaultDepth == -9

\* setup_defaults()["mill"]["step"]["max"]: the step spin boxes (the global one and the
\* per-object ones) are taken to admit no value above -0.05
WidgetStepMax == -5

\* the numbers a setup file (json) may hold for mill.step
StepValues == (-MaxCfgStep)..1

\* the values a step spin box can hold
WidgetSteps == { v \in StepValues : v <= WidgetStepMax }

\* QDoubleSpinBox.setValue: a value above the maximum becomes the maximum
ClampWidget(v) == IF v > WidgetStepMax THEN WidgetStepMax ELSE v

\* The numbers a setup file, a layer name or a depth spin box gives for mill.depth: the
\* default, and one shallower value.  Both are negative, as the depth spin boxes are
\* taken to admit.
DepthValues == { DefaultDepth, -(MaxCfgStep \div 2) }

\* The layer of an object as prepare_segments reads it: sd says whether the name starts
\* with "MILL:" and carries a SLICEDEPTH entry "SD:<value>", md whether it carries a
\* MILLDEPTH entry "MD:<dvalue>"; value and dvalue are the numbers' magnitudes in 0.01 mm
\* (for the step 0 or the largest, for the depth the shallow one).
Layers ==
    { l \in [sd : BOOLEAN, value : {0, MaxCfgStep}, md : BOOLEAN,
             dvalue : {0, MaxCfgStep \div 2}] :
        /\ (~l.sd => l.value = 0)
        /\ (l.md <=> l.dvalue # 0) }

\* the drawings: the layers of their objects
Drawings == SeqsUpTo(Layers, MaxObjects) \ { <<>> }

\* prepare_segments: every object gets a copy of the global mill setup; a layer's SD
\* entry overrides the step with -abs(value), its MD entry the depth with -abs(dvalue)
prepare_segments(layers, st, dp) ==
    [i \in 1..Len(layers) |->
        [step  |-> IF layers[i].sd THEN -Abs(layers[i].value) ELSE st,
         depth |-> IF layers[i].md THEN -Abs(layers[i].dvalue) ELSE dp]]

\* run_calculation: objects2polyline_offsets hands each object's setup["mill"] to its
\* offset polyline, which polylines2machine_cmd then steps down by mill["step"]
run_calculation(objs) == [i \in 1..Len(objs) |-> objs[i].step]

\* ... towards mill["depth"]
run_calculation_depth(objs) == [i \in 1..Len(objs) |-> objs[i].depth]

\* "if step >= 0.0: step = -0.05"
CorrectStep(v) == IF v >= 0 THEN StepFloor ELSE v

\* mutant: every object follows a changed global value
PropagateToAll(objs, old, new) ==
    [i \in 1..Len(objs) |-> IF new # old THEN [objs[i] EXCEPT !.step = new] ELSE objs[i]]

\* global_changed, lines 1476-1486: an object follows the global value only if that
\* changed and the object still held the old one
Propagate(objs, old, new) ==
    [i \in 1..Len(objs) |->
        IF new # old /\ objs[i].step = old THEN [objs[i] EXCEPT !.step = new] ELSE objs[i]]

\* the same for the key "depth"
PropagateDepth(objs, old, new) ==
    [i \in 1..Len(objs) |->
        IF new # old /\ objs[i].depth = old THEN [objs[i] EXCEPT !.depth = new] ELSE objs[i]]

SeqIdle ==
    /\ polylines = <<>>
    /\ maxOuter = 0
    /\ pc = "idle"
    /\ level = 0
    /\ milling = <<>>
    /\ last_pos = <<0, 0>>
    /\ order = 0
    /\ nearest_idx = 0
    /\ nearest_point = 0
    /\ points = <<>>
    /\ is_closed = FALSE
    /\ helix_mode = FALSE
    /\ depth = 0
    /\ last_depth = 0
    /\ obj_distance = 0
    /\ gcode = <<>>
    /\ selections = <<>>

\* __init__, lines 2131-2136: the setup is filled with the defaults
InitCfg ==
    /\ SeqIdle
    /\ CalcIdle
    /\ WriterIdle
    /\ FnIdle
    /\ phase = "setup"
    /\ status = "INIT"
    /\ draw_reader = FALSE
    /\ setup_step = DefaultStep
    /\ widget_step = DefaultStep
    /\ setup_depth = DefaultDepth
    /\ widget_depth = DefaultDepth
    /\ objects = <<>>
    /\ kernel_steps = <<>>
    /\ kernel_depths = <<>>
    /\ gc_before = NoGc

\* __init__, lines 2138-2139: the setup file exists and is loaded (setup_load_string)
StartupLoadSetup ==
    /\ phase = "setup"
    /\ \E v \in StepValues : setup_step' = v
    /\ \E d \in DepthValues : setup_depth' = d
    /\ phase' = "drawing"
    /\ UNCHANGED <<status, draw_reader, widget_step, widget_depth, objects,
                   kernel_steps, kernel_depths>>
    /\ gc_before' = NoGc
    /\ UNCHANGED restOfCfg

\* __init__: there is no setup file
StartupNoSetup ==
    /\ phase = "setup"
    /\ phase' = "drawing"
    /\ UNCHANGED <<status, draw_reader, setup_step, widget_step, setup_depth, widget_depth,
                   objects, kernel_steps, kernel_depths>>
    /\ gc_before' = NoGc
    /\ UNCHANGED restOfCfg

\* __init__, lines 2143-2151: a drawing and --output are given: load_drawing,
\* update_drawing (run_calculation), the machine code is written, exit
StartupOutput ==
    /\ phase = "drawing"
    /\ \E d \in Drawings :
        /\ objects' = prepare_segments(d, setup_step, setup_depth)
        /\ kernel_steps' = run_calculation(objects')
        /\ kernel_depths' = run_calculation_depth(objects')
    /\ draw_reader' = TRUE
    /\ phase' = "exited"
    /\ UNCHANGED <<status, setup_step, widget_step, setup_depth, widget_depth>>
    /\ gc_before' = NoGc
    /\ UNCHANGED restOfCfg

\* __init__, lines 2143 and 2153-2238: a drawing is given, the GUI starts;
\* create_global_setup sets the spin boxes to the setup's values
StartupGuiWithDrawing ==
    /\ phase = "drawing"
    /\ \E d \in Drawings : objects' = prepare_segments(d, setup_step, setup_depth)
    /\ draw_reader' = TRUE
    /\ widget_step' = ClampWidget(setup_step)
    /\ widget_depth' = setup_depth
    /\ phase' = "gui"
    /\ UNCHANGED <<status, setup_step, setup_depth, kernel_steps, kernel_depths>>
    /\ gc_before' = NoGc
    /\ UNCHANGED restOfCfg

\* __init__: no drawing is given, the GUI starts
StartupGui ==
    /\ phase = "drawing"
    /\ widget_step' = ClampWidget(setup_step)
    /\ widget_depth' = setup_depth
    /\ phase' = "gui"
    /\ UNCHANGED <<status, draw_reader, setup_step, setup_depth, objects,
                   kernel_steps, kernel_depths>>
    /\ gc_before' = NoGc
    /\ UNCHANGED restOfCfg

\* global_changed with the step spin box at w and the depth spin box at wd, and what it
\* leaves: setup step, setup depth, objects, kernel input (it returns before the objects
\* when no drawing is loaded)
GlobalChangedResult(w, wd, objs, loaded, ks, kd) ==
    LET new  == CorrectStep(w)
        nobj == PropagateDepth(Propagate(objs, setup_step, new), setup_depth, wd)
    IN  IF loaded
        THEN <<new, wd, nobj, run_calculation(nobj), run_calculation_depth(nobj)>>
        ELSE <<new, wd, objs, ks, kd>>

\* global_changed: a widget of the global setup changed (a spin box to w or wd, or
\* another widget while they hold w and wd)
GlobalChanged ==
    /\ phase = "gui"
    /\ status # "CHANGE"
    /\ \E w \in WidgetSteps, wd \in DepthValues :
        /\ w = widget_step \/ wd = widget_depth
        /\ LET r == GlobalChangedResult(w, wd, objects, draw_reader,
                                        kernel_steps, kernel_depths)
           IN  /\ widget_step' = w
               /\ widget_depth' = wd
               /\ setup_step' = r[1]
               /\ setup_depth' = r[2]
               /\ objects' = r[3]
               /\ kernel_steps' = r[4]
               /\ kernel_depths' = r[5]
    /\ UNCHANGED <<phase, status, draw_reader>>
    /\ gc_before' = GcBefore(setup_step, setup_depth, objects)
    /\ UNCHANGED restOfCfg

\* object_changed(obj_idx, "mill", key, value): the object's step or depth spin box
\* changed
ObjectChanged ==
    /\ phase = "gui"
    /\ status # "CHANGE"
    /\ \E i \in 1..Len(objects) :
        \/ \E w \in WidgetSteps : objects' = [objects EXCEPT ![i].step = w]
        \/ \E wd \in DepthValues : objects' = [objects EXCEPT ![i].depth = wd]
    /\ kernel_steps' = run_calculation(objects')
    /\ kernel_depths' = run_calculation_depth(objects')
    /\ UNCHANGED <<phase, status, draw_reader, setup_step, widget_step, setup_depth,
                   widget_depth>>
    /\ gc_before' = NoGc
    /\ UNCHANGED restOfCfg

\* _toolbar_load_drawing: load_drawing (status "INIT", prepare_segments), update_table,
\* global_changed(0), update_drawing
ToolbarLoadDrawing ==
    /\ phase = "gui"
    /\ \E d \in Drawings :
        LET r == GlobalChangedResult(widget_step, widget_depth,
                                     prepare_segments(d, setup_step, setup_depth),
                                     TRUE, <<>>, <<>>)
        IN  /\ setup_step' = r[1]
            /\ setup_depth' = r[2]
            /\ objects' = r[3]
            /\ gc_before' = GcBefore(setup_step, setup_depth,
                                     prepare_segments(d, setup_step, setup_depth))
            /\ kernel_steps' = run_calculation(r[3])
            /\ kernel_depths' = run_calculation_depth(r[3])
    /\ status' = "INIT"
    /\ draw_reader' = TRUE
    /\ UNCHANGED <<phase, widget_step, widget_depth>>
    /\ UNCHANGED restOfCfg

\* _toolbar_load_setup_from: setup_load, then under status "CHANGE" update_global_setup
\* (the spin boxes take the loaded values), global_changed(0), which returns at once, and
\* update_drawing; the status ends "READY"
ToolbarLoadSetup ==
    /\ phase = "gui"
    /\ \E v \in StepValues :
        /\ setup_step' = v
        /\ widget_step' = ClampWidget(v)
    /\ \E d \in DepthValues :
        /\ setup_depth' = d
        /\ widget_depth' = d
    /\ kernel_steps' = IF draw_reader THEN run_calculation(objects) ELSE kernel_steps
    /\ kernel_depths' = IF draw_reader THEN run_calculation_depth(objects) ELSE kernel_depths
    /\ status' = "READY"
    /\ UNCHANGED <<phase, draw_reader, objects>>
    /\ gc_before' = NoGc
    /\ UNCHANGED restOfCfg

\* _toolbar_flipx and the like: update_drawing on the loaded drawing
Recalculate ==
    /\ phase = "gui"
    /\ draw_reader
    /\ kernel_steps' = run_calculation(objects)
    /\ kernel_depths' = run_calculation_depth(objects)
    /\ UNCHANGED <<phase, status, draw_reader, setup_step, widget_step, setup_depth,
                   widget_depth, objects>>
    /\ gc_before' = NoGc
    /\ UNCHANGED restOfCfg

NextCfg ==
    \/ StartupLoadSetup \/ StartupNoSetup \/ StartupOutput \/ StartupGuiWithDrawing
    \/ StartupGui \/ GlobalChanged \/ ObjectChanged \/ ToolbarLoadDrawing
    \/ ToolbarLoadSetup \/ Recalculate

SpecCfg == InitCfg /\ [][NextCfg]_vars


\* ------------------------------------------------------------------ recalculation

\* the plugins run_calculation has a writer for
KnownPlugins == {"gcode_linuxcnc", "hpgl"}

\* the plugin names a setup file (json) may hold
PluginValues == KnownPlugins \cup {"grbl"}

\* psetup["workpiece"]["zero"]
ZeroValues == {"original", "bottomLeft", "bottomRight", "topLeft", "topRight", "center"}

UnitValues == {"mm", "inch"}

\* psetup["tool"]["diameter"]; with the unit it gives two tool diameters in mm
Diameters == {2}

\* what a setup file may hold, and what the widgets of the global setup can show (the
\* plugin combo box offers the known plugins)
Setups == [zero : ZeroValues, unit : UnitValues, plugin : PluginValues, diameter : Diameters]
WidgetSetups == { st \in Setups : st.plugin \in KnownPlugins }

\* setup_defaults(): the defaults of these entries
DefaultSetup == [zero |-> "original", unit |-> "mm", plugin |-> "gcode_linuxcnc", diameter |-> 2]

\* global_changed reads the setup back from the widgets, which were set from the setup;
\* a plugin name the combo box does not offer leaves the box at one it does
FromWidgets(st) ==
    { w \in WidgetSetups :
        /\ w.zero = st.zero /\ w.unit = st.unit /\ w.diameter = st.diameter
        /\ (st.plugin \in KnownPlugins => w.plugin = st.plugin) }

Seg(a, b) == [start |-> a, end |-> b]

\* The objects of the drawings, as connected chains of segments.  All coordinates are
\* even, so that the halves run_calculation takes for zero = "center" are whole numbers.
CalcShapes ==
    { << Seg(<<2, 2>>, <<4, 2>>), Seg(<<4, 2>>, <<4, 4>>) >>,
      << Seg(<<-2, -2>>, <<0, 2>>) >> }

CalcDrawings == SeqsUpTo(CalcShapes, MaxObjects) \ { <<>> }

RECURSIVE Flatten(_)
Flatten(ss) == IF ss = <<>> THEN <<>> ELSE Head(ss) \o Flatten(Tail(ss))

Min(S) == CHOOSE m \in S : \A e \in S : m <= e
Max(S) == CHOOSE m \in S : \A e \in S : m >= e

ObjPoints(objs) ==
    UNION { UNION { { objs[i][j].start, objs[i][j].end } : j \in 1..Len(objs[i]) } :
            i \in 1..Len(objs) }

\* calc.objects2minmax: (min x, min y, max x, max y) over all segment end points
objects2minmax(objs) ==
    LET P == ObjPoints(objs)
    IN  << Min({ p[1] : p \in P }), Min({ p[2] : p \in P }),
           Max({ p[1] : p \in P }), Max({ p[2] : p \in P }) >>

\* calc.move_objects: every segment end point is shifted by (dx, dy), in place
move_objects(objs, dx, dy) ==
    [i \in 1..Len(objs) |->
        [j \in 1..Len(objs[i]) |->
            Seg(<<objs[i][j].start[1] + dx, objs[i][j].start[2] + dy>>,
                <<objs[i][j].end[1] + dx, objs[i][j].end[2] + dy>>)]]

\* mutant: bottomLeft moves by the right edge
CenterShiftWrongEdge(zero, mm) ==
    IF zero = "bottomLeft" THEN << -mm[3], -mm[2] >>
    ELSE IF zero = "bottomRight" THEN << -mm[3], -mm[2] >>
    ELSE IF zero = "topLeft" THEN << -mm[1], -mm[4] >>
    ELSE IF zero = "topRight" THEN << -mm[3], -mm[4] >>
    ELSE IF zero = "center"
         THEN << -mm[1] - (mm[3] - mm[1]) \div 2, -mm[2] - (mm[4] - mm[2]) \div 2 >>
    ELSE << 0, 0 >>

\* lines 737-752: the shift that puts the workpiece zero at the origin (min_max is
\* 0-based in the code, 1-based here)
CenterShift(zero, mm) ==
    IF zero = "bottomLeft" THEN << -mm[1], -mm[2] >>
    ELSE IF zero = "bottomRight" THEN << -mm[3], -mm[2] >>
    ELSE IF zero = "topLeft" THEN << -mm[1], -mm[4] >>
    ELSE IF zero = "topRight" THEN << -mm[3], -mm[4] >>
    ELSE IF zero = "center"
         THEN << -mm[1] - (mm[3] - mm[1]) \div 2, -mm[2] - (mm[4] - mm[2]) \div 2 >>
    ELSE << 0, 0 >>

\* lines 735-752: the objects after the centercalc; with any other zero move_objects is
\* not called
Centered(objs, zero) ==
    LET sh == CenterShift(zero, objects2minmax(objs))
    IN  IF zero \in ZeroValues \ {"original"} THEN move_objects(objs, sh[1], sh[2]) ELSE objs

\* lines 758-761: the tool diameter in mm (here in 0.1 mm)
ToolDiameter(st) == IF st.unit = "inch" THEN st.diameter * 254 ELSE st.diameter * 10

\* lines 762-767: objects2polyline_offsets, as a function of the diameter and the objects
PolylineOffsets(st, objs) == [diameter |-> ToolDiameter(st), objects |-> objs]

\* line 789: polylines2machine_cmd, as a function of the offsets and the writer
MachineCmd(st, offs) == [plugin |-> st.plugin, offsets |-> offs]

\* mutant: an unknown plugin falls through to a writer
PluginKnownAlways(st) == TRUE

\* lines 772-784: is there a writer for the configured plugin
PluginKnown(st) == st.plugin \in KnownPlugins

\* the part of the project run_calculation reads and writes
Project ==
    [obj |-> obj_segments, setup |-> calc_setup, minMax |-> minMax, offsets |-> offsets,
     cmd |-> machine_cmd, exit |-> exit_status]

\* run_calculation on project p; loaded is self.draw_reader.  sys.exit(1) leaves the
\* project as it is at line 788.
RunCalculation(p, loaded) ==
    IF ~loaded THEN p
    ELSE LET objs == Centered(p.obj, p.setup.zero)
             offs == PolylineOffsets(p.setup, objs)
             q    == [p EXCEPT !.obj = objs, !.minMax = objects2minmax(objs),
                               !.offsets = offs]
         IN  IF PluginKnown(p.setup)
             THEN [q EXCEPT !.cmd = MachineCmd(p.setup, offs)]
             ELSE [q EXCEPT !.exit = 1]

\* load_drawing, lines 2040-2077, on project p with the drawing d
LoadDrawing(p, d) ==
    [p EXCEPT !.obj = d, !.minMax = NoMinMax, !.offsets = NoOffsets, !.cmd = NoMachineCmd]

\* history: what run_calculation found when the handler called it
Before(p, org) == [obj |-> p.obj, org |-> org, setup |-> p.setup, cmd |-> p.cmd]

\* the handler ends with project p (and the process, if run_calculation exited)
Publish(p) ==
    /\ obj_segments' = p.obj
    /\ calc_setup' = p.setup
    /\ minMax' = p.minMax
    /\ offsets' = p.offsets
    /\ machine_cmd' = p.cmd
    /\ exit_status' = p.exit

\* __init__, lines 2131-2136
InitCalc ==
    /\ SeqIdle
    /\ WriterIdle
    /\ FnIdle
    /\ phase = "setup"
    /\ status = "INIT"
    /\ draw_reader = FALSE
    /\ setup_step = DefaultStep
    /\ widget_step = DefaultStep
    /\ setup_depth = DefaultDepth
    /\ widget_depth = DefaultDepth
    /\ objects = <<>>
    /\ kernel_steps = <<>>
    /\ kernel_depths = <<>>
    /\ gc_before = NoGc
    /\ segments_org = <<>>
    /\ obj_segments = <<>>
    /\ calc_setup = DefaultSetup
    /\ minMax = NoMinMax
    /\ offsets = NoOffsets
    /\ machine_cmd = NoMachineCmd
    /\ exit_status = -1
    /\ calc_ran = FALSE
    /\ calc_before = Before(Project, <<>>)

\* __init__, lines 2138-2139: the setup file is loaded, or there is none
CalcStartupSetup ==
    /\ phase = "setup"
    /\ \/ \E st \in Setups : calc_setup' = st
       \/ calc_setup' = calc_setup
    /\ phase' = "drawing"
    /\ UNCHANGED <<status, draw_reader, segments_org, obj_segments, minMax, offsets,
                   machine_cmd, exit_status, calc_ran, calc_before>>
    /\ UNCHANGED restOfCalc

\* __init__, lines 2143-2152: a drawing and --output (or --dxf) are given: load_drawing,
\* update_drawing, the file is written, sys.exit(0)
CalcStartupOutput ==
    /\ phase = "drawing"
    /\ \E d \in CalcDrawings :
        LET p == LoadDrawing(Project, d)
            r == RunCalculation(p, TRUE)
        IN  /\ segments_org' = Flatten(d)
            /\ calc_before' = Before(p, Flatten(d))
            /\ Publish([r EXCEPT !.exit = IF r.exit = 1 THEN 1 ELSE 0])
    /\ calc_ran' = TRUE
    /\ draw_reader' = TRUE
    /\ phase' = "exited"
    /\ UNCHANGED status
    /\ UNCHANGED restOfCalc

\* __init__, lines 2143 and 2153-2236: the GUI starts, with a drawing loaded or without
CalcStartupGui ==
    /\ phase = "drawing"
    /\ \/ \E d \in CalcDrawings :
            /\ segments_org' = Flatten(d)
            /\ Publish(LoadDrawing(Project, d))
            /\ draw_reader' = TRUE
       \/ UNCHANGED <<segments_org, obj_segments, calc_setup, minMax, offsets, machine_cmd,
                      exit_status, draw_reader>>
    /\ phase' = "gui"
    /\ UNCHANGED <<status, calc_ran, calc_before>>
    /\ UNCHANGED restOfCalc

\* a handler in the GUI calls update_drawing on project p and ends (or the process does)
UpdateDrawing(p, st) ==
    LET r == RunCalculation(p, draw_reader')
    IN  /\ calc_before' = IF draw_reader' THEN Before(p, segments_org') ELSE calc_before
        /\ calc_ran' = draw_reader'
        /\ Publish(r)
        /\ phase' = IF r.exit = 1 THEN "exited" ELSE "gui"
        /\ status' = st

\* GLWidget.timerEvent: the first timer tick after a drawing was loaded
CalcTimerEvent ==
    /\ phase = "gui"
    /\ status = "INIT"
    /\ UNCHANGED <<draw_reader, segments_org>>
    /\ UpdateDrawing(Project, "READY")
    /\ UNCHANGED restOfCalc

\* global_changed: the setup is read from the widgets (one of them changed), then
\* update_drawing if a drawing is loaded
CalcGlobalChanged ==
    /\ phase = "gui"
    /\ status # "CHANGE"
    /\ UNCHANGED <<draw_reader, segments_org>>
    /\ \E w \in WidgetSetups :
        /\ \E v \in FromWidgets(calc_setup) :
              \/ w = [v EXCEPT !.zero = w.zero]
              \/ w = [v EXCEPT !.unit = w.unit]
              \/ w = [v EXCEPT !.plugin = w.plugin]
              \/ w = [v EXCEPT !.diameter = w.diameter]
        /\ UpdateDrawing([Project EXCEPT !.setup = w], status)
    /\ UNCHANGED restOfCalc

\* _toolbar_load_drawing: load_drawing, update_table, global_changed(0) with its
\* update_drawing, update_drawing
CalcToolbarLoadDrawing ==
    /\ phase = "gui"
    /\ draw_reader' = TRUE
    /\ \E d \in CalcDrawings, w \in FromWidgets(calc_setup) :
        /\ segments_org' = Flatten(d)
        /\ UpdateDrawing(RunCalculation([LoadDrawing(Project, d) EXCEPT !.setup = w], TRUE),
                         "INIT")
    /\ UNCHANGED restOfCalc

\* _toolbar_load_setup_from: setup_load, then under status "CHANGE" global_changed(0),
\* which returns at once, and update_drawing; the status ends "READY"
CalcToolbarLoadSetup ==
    /\ phase = "gui"
    /\ UNCHANGED <<draw_reader, segments_org>>
    /\ \E st \in Setups :
        /\ st # calc_setup
        /\ IF draw_reader
           THEN LET p == [Project EXCEPT !.setup = st]
                    r == RunCalculation(p, TRUE)
                IN  /\ calc_before' = Before(p, segments_org)
                    /\ calc_ran' = TRUE
                    /\ Publish(r)
                    /\ phase' = IF r.exit = 1 THEN "exited" ELSE "gui"
                    /\ status' = IF r.exit = 1 THEN "CHANGE" ELSE "READY"
           ELSE /\ Publish([Project EXCEPT !.setup = st])
                /\ calc_ran' = FALSE
                /\ status' = "READY"
                /\ UNCHANGED <<phase, calc_before>>
    /\ UNCHANGED restOfCalc

NextCalc ==
    \/ CalcStartupSetup \/ CalcStartupOutput \/ CalcStartupGui \/ CalcTimerEvent
    \/ CalcGlobalChanged \/ CalcToolbarLoadDrawing \/ CalcToolbarLoadSetup

SpecCalc == InitCalc /\ [][NextCalc]_vars


\* ------------------------------------------------------------------ LinuxCNC writer

\* most calls on one writer
MaxCalls == 3

\* The coordinates a caller passes: None or a number of mm.
XArgs == {None, 0, 1}
YArgs == {None, 0}
ZArgs == {None, 0}
\* the arc centre: i_pos and j_pos are passed together, r_pos is not passed
IJArgs == {None, 1}

\* a call: the method, then x_pos, y_pos, z_pos, i_pos, j_pos
Call(m, x, y, z, i, j) == <<m, x, y, z, i, j>>

Method(c) == c[1]
ArgX(c) == c[2]
ArgY(c) == c[3]
ArgZ(c) == c[4]
ArgI(c) == c[5]
ArgJ(c) == c[6]

\* mutant: the tracked position is not looked at
PosChangedIgnoresPosition(arg, cur) == arg # None

\* "x_pos is not None and self.x_pos != x_pos"
PosChanged(arg, cur) == arg # None /\ cur # arg

\* v * self.scale as the fraction <<numerator, denominator>>: v, or v / 25.4
Scaled(v, scale) == IF scale = "mm" THEN <<v, 1>> ELSE <<v * 10, 254>>

\* "offsets[0] / self.scale": v, or v * 25.4 (the offsets passed are multiples of 5)
Unscaled(v, scale) == IF scale = "mm" THEN v ELSE (v * 254) \div 10

\* the value of a coordinate word: (x_pos + self.offsets[0]) * self.scale
OutValue(v, axis) == Scaled(v + pp_offsets[axis], pp_scale)

\* the place, in mm, a word's value names to an interpreter that reads it in the unit
\* of the last G20 / G21 line (mm before the first)
Interpreted(w, scale) ==
    IF scale = "mm" THEN w[1] \div w[2] ELSE (w[1] * 254) \div (w[2] * 10)

\* the words of the line: X, Y, Z as far as they changed, then I, J as far as given
Words(c) ==
    (IF PosChanged(ArgX(c), x_pos) THEN << <<"X", OutValue(ArgX(c), 1)>> >> ELSE <<>>)
    \o (IF PosChanged(ArgY(c), y_pos) THEN << <<"Y", OutValue(ArgY(c), 2)>> >> ELSE <<>>)
    \o (IF PosChanged(ArgZ(c), z_pos) THEN << <<"Z", OutValue(ArgZ(c), 3)>> >> ELSE <<>>)
    \o (IF ArgI(c) # None THEN << <<"I", ArgI(c)>> >> ELSE <<>>)
    \o (IF ArgJ(c) # None THEN << <<"J", ArgJ(c)>> >> ELSE <<>>)

\* the G word each method writes
GWord(m) ==
    IF m = "move" THEN "G00"
    ELSE IF m = "linear" THEN "G01"
    ELSE IF m = "arc_cw" THEN "G02"
    ELSE "G03"

\* one call of move, linear, arc_cw or arc_ccw: the tracked position follows the changed
\* coordinates; "if line:" the line is appended
MotionCall(c) ==
    /\ Len(pp_calls) + Len(pp_setup) < MaxCalls
    /\ pp_calls' = Append(pp_calls, c)
    /\ x_pos' = IF PosChanged(ArgX(c), x_pos) THEN ArgX(c) ELSE x_pos
    /\ y_pos' = IF PosChanged(ArgY(c), y_pos) THEN ArgY(c) ELSE y_pos
    /\ z_pos' = IF PosChanged(ArgZ(c), z_pos) THEN ArgZ(c) ELSE z_pos
    /\ pp_gcode' = IF Words(c) # <<>>
                   THEN Append(pp_gcode, [cmd |-> GWord(Method(c)), words |-> Words(c),
                                          call |-> Len(pp_calls) + 1])
                   ELSE pp_gcode
    /\ pp_mach' = << IF PosChanged(ArgX(c), x_pos)
                     THEN Interpreted(OutValue(ArgX(c), 1), pp_scale) ELSE pp_mach[1],
                     IF PosChanged(ArgY(c), y_pos)
                     THEN Interpreted(OutValue(ArgY(c), 2), pp_scale) ELSE pp_mach[2],
                     IF PosChanged(ArgZ(c), z_pos)
                     THEN Interpreted(OutValue(ArgZ(c), 3), pp_scale) ELSE pp_mach[3] >>
    /\ UNCHANGED <<pp_scale, pp_offsets, offsets_reset, pp_setup>>
    /\ UNCHANGED restOfWriter

\* the machine units a caller passes
Units == {"mm", "inch"}

\* the offsets a caller passes
OffsetArgs == { <<0, 0, 0>>, <<5, 0, 0>> }

SetupCall(m, lines) == [method |-> m, lines |-> lines, at |-> Len(pp_calls)]

\* unit: the G21 or G20 line, and the scale
unit ==
    \E u \in Units :
        /\ Len(pp_calls) + Len(pp_setup) < MaxCalls
        /\ pp_setup' = Append(pp_setup, SetupCall("unit", << IF u = "mm" THEN "G21" ELSE "G20" >>))
        /\ pp_scale' = u
        /\ UNCHANGED <<pp_gcode, x_pos, y_pos, z_pos, pp_calls, pp_offsets, offsets_reset, pp_mach>>
        /\ UNCHANGED restOfWriter

\* offsets_reset after machine_offsets: "self.offsets_reset = False", then True if
\* "not soft and offsets != (0.0, 0.0, 0.0)"
OffsetsReset(offs, soft) == ~soft /\ offs # <<0, 0, 0>>

\* machine_offsets: hard offsets other than zero are written as G10 L2 P1 and G54, soft
\* offsets are stored divided by the scale
machine_offsets ==
    \E offs \in OffsetArgs, soft \in BOOLEAN :
        /\ Len(pp_calls) + Len(pp_setup) < MaxCalls
        /\ offsets_reset' = OffsetsReset(offs, soft)
        /\ pp_setup' = Append(pp_setup,
                SetupCall("machine_offsets",
                          IF ~soft /\ offs # <<0, 0, 0>> THEN <<"G10 L2 P1", "G54">> ELSE <<>>))
        /\ pp_offsets' = IF soft THEN [a \in 1..3 |-> Unscaled(offs[a], pp_scale)]
                         ELSE pp_offsets
        /\ UNCHANGED <<pp_gcode, x_pos, y_pos, z_pos, pp_calls, pp_scale, pp_mach>>
        /\ UNCHANGED restOfWriter

\* program_end: the reset line if offsets_reset, then M02
program_end ==
    /\ Len(pp_calls) + Len(pp_setup) < MaxCalls
    /\ pp_setup' = Append(pp_setup,
            SetupCall("program_end",
                      (IF offsets_reset THEN <<"G10 L2 P1 X0 Y0 Z0">> ELSE <<>>) \o <<"M02">>))
    /\ UNCHANGED <<pp_gcode, x_pos, y_pos, z_pos, pp_calls, pp_scale, pp_offsets,
                   offsets_reset, pp_mach>>
    /\ UNCHANGED restOfWriter

\* PostProcessorGcodeLinuxCNC.__init__
InitWriter ==
    /\ SeqIdle
    /\ CfgIdle
    /\ CalcIdle
    /\ WriterIdle
    /\ FnIdle

move == \E x \in XArgs, y \in YArgs, z \in ZArgs : MotionCall(Call("move", x, y, z, None, None))

linear == \E x \in XArgs, y \in YArgs, z \in ZArgs : MotionCall(Call("linear", x, y, z, None, None))

arc_cw ==
    \E x \in XArgs, y \in YArgs, z \in ZArgs, ij \in IJArgs :
        MotionCall(Call("arc_cw", x, y, z, ij, ij))

arc_ccw ==
    \E x \in XArgs, y \in YArgs, z \in ZArgs, ij \in IJArgs :
        MotionCall(Call("arc_ccw", x, y, z, ij, ij))

NextWriter == move \/ linear \/ arc_cw \/ arc_ccw \/ unit \/ machine_offsets \/ program_end

SpecWriter == InitWriter /\ [][NextWriter]_vars


\* ------------------------------------------------------ the functions of calc.py
\*
\* Coordinates are whole thousandths of a millimetre.  A bulge is a float, kept
\* as its sign bit and its magnitude so that 0.0 and -0.0 are two values.

MaxSegments == 3

ZeroBulge == [neg |-> FALSE, abs |-> 0]
FnBulge == [neg |-> FALSE, abs |-> 1]

\* -bulge
NegateBulgeAbs(b) == [b EXCEPT !.neg = TRUE]
Negate(b) == [b EXCEPT !.neg = ~b.neg]

\* bulge == bulge of two floats: 0.0 == -0.0
BulgeEq(a, b) == a.abs = b.abs /\ (a.abs = 0 \/ a.neg = b.neg)

FnPoints == { <<0, 0>>, <<4, 0>>, <<5000, 0>>, <<10000, 0>>, <<5000, 5000>> }

Segment(s, e, b) == [start |-> s, end |-> e, bulge |-> b, object |-> None]

\* the segments a drawing is made of: lines between two different points, and
\* one arc in both directions
FnSegments ==
    { Segment(p[1], p[2], ZeroBulge) : p \in { q \in FnPoints \X FnPoints : q[1] # q[2] } }
        \cup { Segment(<<0, 0>>, <<10000, 0>>, FnBulge),
               Segment(<<10000, 0>>, <<0, 0>>, FnBulge) }

FnInputs == SeqsUpTo(FnSegments, MaxSegments)

\* int(value * 100) / 100: cut off after two decimals
Round2Truncating(c) == c \div 10
\* round(value, 2)
Round2(c) == (c + 5) \div 10

\* calc.fuzy_match(p1, p2)
fuzy_match(p1, p2) == Round2(p1[1]) = Round2(p2[1]) /\ Round2(p1[2]) = Round2(p2[2])

\* calc.is_between(p, a, b): p lies on the straight line from a to b
is_between(p, a, b) ==
    /\ (b[1] - a[1]) * (p[2] - a[2]) = (b[2] - a[2]) * (p[1] - a[1])
    /\ Min({a[1], b[1]}) <= p[1] /\ p[1] <= Max({a[1], b[1]})
    /\ Min({a[2], b[2]}) <= p[2] /\ p[2] <= Max({a[2], b[2]})

\* the two segments join the same two points, in either direction
SameEndsSameDirection(s, t) == fuzy_match(s.start, t.start) /\ fuzy_match(s.end, t.end)
SameEnds(s, t) ==
    \/ fuzy_match(s.start, t.start) /\ fuzy_match(s.end, t.end)
    \/ fuzy_match(s.start, t.end) /\ fuzy_match(s.end, t.start)

\* the line s lies on the line t
Overlaid(s, t) ==
    /\ s.bulge.abs = 0 /\ t.bulge.abs = 0
    /\ is_between(s.start, t.start, t.end)
    /\ is_between(s.end, t.start, t.end)

\* what clean_segments compares segment i with
OthersOnlyNext(segs, i) == {i + 1} \cap (1..Len(segs))
Others(segs, i) == (1..Len(segs)) \ {i}

\* clean_segments drops segment i: a later one joins the same points, or it
\* lies on another line
Dropped(segs, i) ==
    \E j \in Others(segs, i) :
        IF SameEnds(segs[i], segs[j]) THEN j > i ELSE Overlaid(segs[i], segs[j])

RECURSIVE CleanFrom(_, _)
CleanFrom(segs, i) ==
    IF i > Len(segs) THEN <<>>
    ELSE (IF Dropped(segs, i) THEN <<>> ELSE <<segs[i]>>) \o CleanFrom(segs, i + 1)

\* calc.clean_segments(segments)
clean_segments(segs) == CleanFrom(segs, 1)

\* one segment the other way round
Reversed(s) == [s EXCEPT !.start = s.end, !.end = s.start, !.bulge = Negate(s.bulge)]

\* calc.reverse_object(obj), on the segments of the object
reverse_object(segs) == [i \in 1..Len(segs) |-> Reversed(segs[Len(segs) + 1 - i])]

\* the chain returns to its own start
Closes(chain) == fuzy_match(chain[1].start, chain[Len(chain)].end)

\* the segment as the chain takes it: as given when its start continues the
\* chain, the other way round when its end does
OrientedAsGiven(last, s) == s
Oriented(last, s) == IF fuzy_match(last.end, s.start) THEN s ELSE Reversed(s)

RemoveAt(l, k) == SubSeq(l, 1, k - 1) \o SubSeq(l, k + 1, Len(l))

\* extend the chain with the first unassigned segment that continues it, until
\* none does or the chain is closed; gives <<chain, unassigned>>
RECURSIVE ExtendChain(_, _)
ExtendChain(chain, rest) ==
    LET last == chain[Len(chain)]
        next == { k \in 1..Len(rest) :
                    \/ fuzy_match(last.end, rest[k].start)
                    \/ fuzy_match(last.end, rest[k].end) }
    IN  IF next = {} \/ Closes(chain) THEN <<chain, rest>>
        ELSE LET k == Min(next)
             IN  ExtendChain(Append(chain, Oriented(last, rest[k])), RemoveAt(rest, k))

\* the object with number idx made of a chain
Object(chain, idx) ==
    [segments |-> reverse_object([i \in 1..Len(chain) |-> [chain[i] EXCEPT !.object = idx]]),
     closed |-> Closes(chain)]

RECURSIVE BuildObjects(_, _)
BuildObjects(rest, idx) ==
    IF rest = <<>> THEN <<>>
    ELSE LET r == ExtendChain(<<rest[1]>>, Tail(rest))
         IN  <<Object(r[1], idx)>> \o BuildObjects(r[2], idx + 1)

\* the input with the position of every segment noted in it
Numbered(segs) ==
    [i \in 1..Len(segs) |->
        [start |-> segs[i].start, end |-> segs[i].end, bulge |-> segs[i].bulge,
         object |-> segs[i].object, nr |-> i]]

\* calc.segments2objects(segments); object ids count from 0
segments2objects(segs) == BuildObjects(Numbered(segs), 0)

InitFn ==
    /\ SeqIdle
    /\ CfgIdle
    /\ CalcIdle
    /\ WriterIdle
    /\ EdIdle
    /\ GlIdle
    /\ PjIdle
    /\ SimIdle
    /\ fn_name = "input"
    /\ fn_arg \in FnInputs
    /\ fn_idx = 0
    /\ fn_res = <<>>

Apply(name, from, to, idx, res) ==
    /\ fn_name = from
    /\ fn_name' = to
    /\ fn_idx' = idx
    /\ fn_res' = res
    /\ UNCHANGED fn_arg
    /\ UNCHANGED restOfFn

CleanSegments == Apply("clean_segments", "input", "clean_segments", 0, clean_segments(fn_arg))

CleanSegmentsAgain ==
    Apply("clean_segments", "clean_segments", "clean_segments twice", 0, clean_segments(fn_res))

Segments2Objects ==
    Apply("segments2objects", "input", "segments2objects", 0, segments2objects(fn_arg))

ReverseObject ==
    /\ fn_arg # <<>>
    /\ Apply("reverse_object", "input", "reverse_object", 0, reverse_object(fn_arg))

ReverseObjectAgain ==
    Apply("reverse_object", "reverse_object", "reverse_object twice", 0, reverse_object(fn_res))

RotateList ==
    \E idx \in 0..(Len(fn_arg) - 1) :
        Apply("rotate_list", "input", "rotate_list", idx, rotate_list(fn_arg, idx))

RotateListBack ==
    Apply("rotate_list", "rotate_list", "rotate_list back", fn_idx,
          rotate_list(fn_res, Len(fn_res) - fn_idx))

\* the points fuzy_match is applied to: thousandths on both sides of a hundredth
FmPoints == {-4, 1, 2, 4, 6, 9, 12} \X {1, 2, 9}

FuzyMatch ==
    /\ fn_name = "input"
    /\ fn_arg = <<>>
    /\ \E p1 \in FmPoints, p2 \in FmPoints :
        /\ fn_arg' = <<p1, p2>>
        /\ fn_res' = fuzy_match(p1, p2)
    /\ fn_name' = "fuzy_match"
    /\ UNCHANGED fn_idx
    /\ UNCHANGED restOfFn

NextFn ==
    \/ FuzyMatch
    \/ CleanSegments
    \/ CleanSegmentsAgain
    \/ Segments2Objects
    \/ ReverseObject
    \/ ReverseObjectAgain
    \/ RotateList
    \/ RotateListBack

SpecFn == InitFn /\ [][NextFn]_vars


\* ------------------------------------------------------------------ editor
\*
\* The objects of a drawing, their nesting (find_tool_offsets) and the handlers of
\* the GUI that change the objects: loading, a changed object setting, deleting an
\* object and picking a start point.

MaxEdObjects == 3
MaxPicks == 1

\* axis-parallel squares: the second inside the first, the third inside the second
EdBoxes ==
    { [lo |-> <<0, 0>>, hi |-> <<12, 12>>], [lo |-> <<2, 2>>, hi |-> <<10, 10>>],
      [lo |-> <<4, 4>>, hi |-> <<8, 8>>] }

\* the closed contour round a square, and the open one along two of its sides
\* (its second side an arc)
EdContour(b, closed) ==
    LET c1 == b.lo
        c2 == <<b.hi[1], b.lo[2]>>
        c3 == b.hi
        c4 == <<b.lo[1], b.hi[2]>>
    IN  IF closed
        THEN << Segment(c1, c2, ZeroBulge), Segment(c2, c3, ZeroBulge),
                Segment(c3, c4, ZeroBulge), Segment(c4, c1, ZeroBulge) >>
        ELSE << Segment(c1, c2, ZeroBulge), Segment(c2, c3, [neg |-> FALSE, abs |-> 2]) >>

EdShapes == { [box |-> b, closed |-> c] : b \in EdBoxes, c \in BOOLEAN }

\* drawings: up to MaxEdObjects contours on different squares
EdDrawings ==
    { d \in SeqsUpTo(EdShapes, MaxEdObjects) :
        /\ d # <<>>
        /\ \A i, j \in 1..Len(d) : i # j => d[i].box # d[j].box }

\* project["objects"] as segments2objects leaves it: the ids count from 0
EdObjects(d) ==
    [ i \in 0..(Len(d) - 1) |->
        [ segments |-> [ k \in 1..Len(EdContour(d[i + 1].box, d[i + 1].closed)) |->
                           [ EdContour(d[i + 1].box, d[i + 1].closed)[k] EXCEPT !.object = i ] ],
          closed |-> d[i + 1].closed,
          outer_objects |-> {},
          start |-> <<>> ] ]

\* the end points of the segments of an object
EdPoints(obj) ==
    UNION { { obj.segments[k].start, obj.segments[k].end } : k \in 1..Len(obj.segments) }

\* calc.is_inside_polygon(obj, point), for the contour round a square
is_inside_polygon(obj, p) ==
    LET P == EdPoints(obj)
    IN  /\ Min({ q[1] : q \in P }) < p[1] /\ p[1] < Max({ q[1] : q \in P })
        /\ Min({ q[2] : q \in P }) < p[2] /\ p[2] < Max({ q[2] : q \in P })

\* mutant: open objects enclose too
EnclosesAlsoOpen(obj, p) == is_inside_polygon(obj, p)
\* a closed object with the point inside
Encloses(obj, p) == obj.closed /\ is_inside_polygon(obj, p)

\* calc.find_outer_objects(objects, point, exclude)
find_outer_objects(objs, p, exclude) ==
    { i \in (DOMAIN objs) \ exclude : Encloses(objs[i], p) }

\* calc.find_tool_offsets(objects): the objects with their outer_objects, and the
\* largest number of them
find_tool_offsets(objs) ==
    LET outer(i) == find_outer_objects(objs, objs[i].segments[1].start, {i})
    IN  [ objects |-> [ i \in DOMAIN objs |-> [ objs[i] EXCEPT !.outer_objects = outer(i) ] ],
          max_outer |-> Max({0} \cup { Cardinality(outer(i)) : i \in DOMAIN objs }) ]

InitEd ==
    /\ SeqIdle
    /\ CfgIdle
    /\ CalcIdle
    /\ WriterIdle
    /\ fn_name = "idle"
    /\ fn_arg = <<>>
    /\ fn_idx = 0
    /\ fn_res = <<>>
    /\ EdIdle
    /\ GlIdle
    /\ PjIdle
    /\ SimIdle

\* a handler calls find_tool_offsets on the objects objs and then update_drawing
FindToolOffsets(by, objs) ==
    LET r == find_tool_offsets(objs)
    IN  /\ ed_objects' = r.objects
        /\ ed_maxOuter' = r.max_outer
        /\ ed_call' = [by |-> by, objects |-> objs, result |-> r.max_outer]
        /\ ed_from' = r.max_outer

\* load_drawing with its prepare_segments (line 2034), then update_drawing; the first
\* load only: a later one overwrites all of this state in the same way
EdLoadDrawing ==
    /\ ed_maxOuter = None
    /\ \E d \in EdDrawings : FindToolOffsets("prepare_segments", EdObjects(d))
    /\ ed_pick' = NoPick
    /\ ed_picks' = 0
    /\ UNCHANGED restOfEd

\* object_changed (line 1246) and global_changed (line 1488): find_tool_offsets on the
\* objects as they are, then update_drawing
EdSettingChanged ==
    /\ ed_maxOuter # None
    /\ \E by \in {"object_changed", "global_changed"} : FindToolOffsets(by, ed_objects)
    /\ UNCHANGED <<ed_pick, ed_picks>>
    /\ UNCHANGED restOfEd

\* mousePressEvent, right button in delete mode (lines 522-527): the object is taken out,
\* then update_drawing
EdDeleteObject ==
    /\ ed_maxOuter # None
    /\ \E i \in DOMAIN ed_objects :
        ed_objects' = [ j \in (DOMAIN ed_objects) \ {i} |-> ed_objects[j] ]
    /\ ed_from' = ed_maxOuter
    /\ UNCHANGED <<ed_maxOuter, ed_call, ed_pick, ed_picks>>
    /\ UNCHANGED restOfEd

\* the point half way along a segment
MidPoint(seg) == <<(seg.start[1] + seg.end[1]) \div 2, (seg.start[2] + seg.end[2]) \div 2>>

\* segment.bulge / 2
HalfBulge(b) == [b EXCEPT !.abs = b.abs \div 2]

\* mutant: the new segment starts where the old one started
NewSegmentFromOldStart(seg, new_point) ==
    [start |-> seg.start, end |-> seg.end, bulge |-> HalfBulge(seg.bulge), object |-> seg.object]
\* lines 463-472: the VcSegment from the new point to the end of the picked segment
NewSegment(seg, new_point) ==
    [start |-> new_point, end |-> seg.end, bulge |-> HalfBulge(seg.bulge), object |-> seg.object]

\* lines 462-475: the segments of the object after the pick of new_point on segment k
\* (k counts from 1 here)
SplitAt(segs, k, new_point) ==
    IF new_point \notin {segs[k].start, segs[k].end}
    THEN SubSeq(segs, 1, k - 1)
             \o << [segs[k] EXCEPT !.end = new_point, !.bulge = HalfBulge(segs[k].bulge)],
                   NewSegment(segs[k], new_point) >>
             \o SubSeq(segs, k + 1, Len(segs))
    ELSE segs

\* mousePressEvent, left button in start mode (lines 457-477 and 500), then update_drawing
EdPickStart ==
    /\ ed_maxOuter # None
    /\ ed_picks < MaxPicks
    /\ \E i \in DOMAIN ed_objects :
        \E k \in 1..Len(ed_objects[i].segments) :
            \E pt \in { ed_objects[i].segments[k].start, ed_objects[i].segments[k].end,
                        MidPoint(ed_objects[i].segments[k]) } :
                /\ ed_objects' =
                       [ ed_objects EXCEPT ![i].segments = SplitAt(@, k, pt), ![i].start = pt ]
                /\ ed_pick' = [obj |-> i, seg |-> k, point |-> pt,
                               before |-> ed_objects[i].segments]
    /\ ed_picks' = ed_picks + 1
    /\ ed_from' = ed_maxOuter
    /\ UNCHANGED <<ed_maxOuter, ed_call>>
    /\ UNCHANGED restOfEd

NextEd == EdLoadDrawing \/ EdSettingChanged \/ EdDeleteObject \/ EdPickStart

SpecEd == InitEd /\ [][NextEd]_vars


\* ------------------------------------------------------------------ GL widget and toolbar

\* the selector modes a toggle can enter
SelectorModes == {"tab", "start", "repair", "delete", "oselect"}

\* how far the model lets the mouse turn the view away from 0, -20 and -30 degrees
MaxTurn == 1

\* the rotations the model follows
InReach(v) == \E r \in {0, -20, -30} : v - r \in (-MaxTurn)..MaxTurn

\* mutant: a toggle takes the selector over from another mode
toggle_selector_takes_over(mode, x) ==
    IF mode = x THEN <<"", FALSE>> ELSE << x, TRUE >>

\* toggle_tab_selector .. toggle_object_selector, for the mode x of the method: the
\* selector mode it leaves and what it returns
toggle_selector(mode, x) ==
    IF mode = "" THEN << x, TRUE >>
    ELSE IF mode = x THEN <<"", FALSE>>
    ELSE << mode, FALSE >>

\* view_2d: ortho and the rotation it leaves
view_2d == << TRUE, <<0, 0, 0>> >>

\* mutant: view_reset does not look at the selector mode
view_reset_unguarded(mode, o, r) == << FALSE, View3d >>

\* view_reset: nothing while a selector mode is active, else the 3D view
view_reset(mode, o, r) == IF mode # "" THEN << o, r >> ELSE << FALSE, View3d >>

\* the view a toggle for x leaves, called in mode: view_2d on entering, view_reset on
\* leaving (after selector_mode was set to ""), nothing else
ToggleView(mode, x) ==
    IF mode = "" THEN view_2d
    ELSE IF mode = x THEN view_reset("", ortho, rot)
    ELSE << ortho, rot >>

\* the checked actions a _toolbar_toggle_*_selector leaves: on True every checkable
\* action is unchecked and the one of x checked, on False the one of x is unchecked
ToggleButtons(ret, x) == IF ret THEN {x} ELSE toolbuttons \ {x}

\* __init__: the widget with the attributes of the class body, the toolbar just created
InitGl ==
    /\ SeqIdle
    /\ CfgIdle
    /\ CalcIdle
    /\ WriterIdle
    /\ fn_name = "idle"
    /\ fn_arg = <<>>
    /\ fn_idx = 0
    /\ fn_res = <<>>
    /\ EdIdle
    /\ GlIdle
    /\ PjIdle
    /\ SimIdle

\* _toolbar_toggle_tab_selector .. _toolbar_toggle_repair_selector
ToolbarToggleSelector ==
    \E x \in SelectorModes :
        LET t == toggle_selector(selector_mode, x)
            v == ToggleView(selector_mode, x)
        IN  /\ selector_mode' = t[1]
            /\ ortho' = v[1]
            /\ rot' = v[2]
            /\ toolbuttons' = ToggleButtons(t[2], x)
            /\ gl_event' = <<"toggle", x, selector_mode, t[2]>>
            /\ UNCHANGED <<rot_last, mbutton>>
            /\ UNCHANGED restOfGl

\* _toolbar_view_2d
ToolbarView2d ==
    /\ ortho' = view_2d[1]
    /\ rot' = view_2d[2]
    /\ gl_event' = <<"view_2d", None, selector_mode, FALSE>>
    /\ UNCHANGED <<selector_mode, rot_last, mbutton, toolbuttons>>
    /\ UNCHANGED restOfGl

\* _toolbar_view_reset
ToolbarViewReset ==
    /\ ortho' = view_reset(selector_mode, ortho, rot)[1]
    /\ rot' = view_reset(selector_mode, ortho, rot)[2]
    /\ gl_event' = <<"view_reset", None, selector_mode, FALSE>>
    /\ UNCHANGED <<selector_mode, rot_last, mbutton, toolbuttons>>
    /\ UNCHANGED restOfGl

\* mousePressEvent, lines 440-447: the button and the rotation are remembered (what a
\* press selects, moves or deletes is the editor's part)
MousePress ==
    \E b \in {1, 2, 4} :
        /\ mbutton' = b
        /\ rot_last' = rot
        /\ gl_event' = <<"press", b, selector_mode, FALSE>>
        /\ UNCHANGED <<selector_mode, ortho, rot, toolbuttons>>
        /\ UNCHANGED restOfGl

\* mouseReleaseEvent
MouseRelease ==
    /\ mbutton' = None
    /\ gl_event' = <<"release", None, selector_mode, FALSE>>
    /\ UNCHANGED <<selector_mode, ortho, rot, rot_last, toolbuttons>>
    /\ UNCHANGED restOfGl

\* the rotation mouseMoveEvent leaves for the offset <<dx, dy>> / 4: button 1 moves the
\* view, a selector mode follows the mouse with its selection, then button 2 turns
\* rot_z and button 4 rot_x and rot_y
Turned(d) ==
    IF mbutton = 1 \/ selector_mode \in SelectorModes THEN rot
    ELSE IF mbutton = 2 THEN << rot[1], rot[2], rot_last[3] - d[1] >>
    ELSE IF mbutton = 4 THEN << rot_last[1] - d[1], rot_last[2] - d[2], rot[3] >>
    ELSE rot

\* whether mouseMoveEvent reaches one of its two rotation branches
Turns == mbutton # 1 /\ selector_mode \notin SelectorModes /\ mbutton \in {2, 4}

\* mouseMoveEvent
MouseMove ==
    \E d \in {<<-1, 0>>, <<1, 0>>, <<0, 1>>} :
        /\ \A a \in 1..3 : InReach(Turned(d)[a])
        /\ rot' = Turned(d)
        /\ ortho' = IF Turns THEN FALSE ELSE ortho
        /\ gl_event' = <<"move", d, selector_mode, FALSE>>
        /\ UNCHANGED <<selector_mode, rot_last, mbutton, toolbuttons>>
        /\ UNCHANGED restOfGl

\* _toolbar_load_drawing with a drawing that loads: create_toolbar clears the toolbar
\* and makes new actions, none of them checked; the widget is not touched
GlToolbarLoadDrawing ==
    /\ toolbuttons' = {}
    /\ gl_event' = <<"load", None, selector_mode, FALSE>>
    /\ UNCHANGED <<selector_mode, ortho, rot, rot_last, mbutton>>
    /\ UNCHANGED restOfGl

NextGl ==
    \/ ToolbarToggleSelector \/ ToolbarView2d \/ ToolbarViewReset \/ MousePress
    \/ MouseRelease \/ MouseMove \/ GlToolbarLoadDrawing

SpecGl == InitGl /\ [][NextGl]_vars


\* ------------------------------------------------------------------ layers and setup
\*
\* The layers of a drawing, the mill.active flag of the setup and of the objects, the
\* tab data and the status of the project, under the handlers of the GUI that write
\* them. A layer name is the pair of the prefix the code tests with startswith and
\* the rest of the name.

MaxPjObjects == 2

LayerNames ==
    { <<"", "0">>, <<"", "1">>, <<"BREAKS:", "a">>, <<"_TABS", "">>, <<"IGNORE:", "x">> }

\* the layers of the objects of a drawing, in the order of the object ids
PjDrawings == { d \in SeqsUpTo(LayerNames, MaxPjObjects) : d # <<>> }

\* layer.startswith("BREAKS:") or layer.startswith("_TABS")
IsTabLayer(layer) == layer[1] \in {"BREAKS:", "_TABS"}

ObjLayer(obj) == obj[1]
ObjActive(obj) == obj[2]

\* the handlers that set the status to "CHANGE"
ChangeHandlers ==
    {"_toolbar_load_setup_from", "_toolbar_load_setup_from_drawing", "tools_select",
     "materials_select"}

\* udate_tabs_data: the objects and the tab data it leaves
udate_tabs_data(objs) ==
    << [ i \in DOMAIN objs |->
           << ObjLayer(objs[i]), IF IsTabLayer(ObjLayer(objs[i])) THEN FALSE ELSE ObjActive(objs[i]) >> ],
       SelectSeq([ i \in DOMAIN objs |-> i ], LAMBDA i : IsTabLayer(ObjLayer(objs[i]))) >>

\* prepare_segments for the drawing d with the global mill.active act: the objects
\* (each with a copy of the setup; a layer IGNORE: is not milled), the layers and the
\* tab data
PreparedObjects(d, act) ==
    [ i \in DOMAIN d |-> << d[i], IF d[i][1] = "IGNORE:" THEN FALSE ELSE act >> ]

PreparedLayers(d) ==
    [ l \in { d[i] : i \in DOMAIN d } |-> ~IsTabLayer(l) ]

\* mutant: the status is not looked at
BlockedNever(st) == FALSE

\* the first statement of global_changed and of object_changed
Blocked(st) == st = "CHANGE"

\* lines 1476-1486 for the key active of the section mill: an object follows the
\* global value if that changed and the object had the old one
PropagateActive(old, new, objs) ==
    [ i \in DOMAIN objs |->
        << ObjLayer(objs[i]),
           IF new # old /\ ObjActive(objs[i]) = old THEN new ELSE ObjActive(objs[i]) >> ]

\* global_changed with a drawing loaded, the check box of mill.active showing w: the
\* global value, the objects, and whether find_tool_offsets and update_drawing ran
global_changed(st, act, w, objs) ==
    IF Blocked(st) THEN << act, objs, FALSE >>
    ELSE << w, PropagateActive(act, w, objs), TRUE >>

\* object_changed for mill.active of object i: the objects, and whether
\* find_tool_offsets and update_drawing ran
object_changed(st, objs, i, value) ==
    IF Blocked(st) THEN << objs, FALSE >>
    ELSE << [ objs EXCEPT ![i] = << ObjLayer(@), value >> ], TRUE >>

\* toggle_layer, lines 1061-1068: the layers and the objects before its global_changed
ToggledLayers(lay, l) == [ lay EXCEPT ![l] = ~@ ]

LayerActive(lay, objs) ==
    [ i \in DOMAIN objs |->
        << ObjLayer(objs[i]),
           IF ObjLayer(objs[i]) \in DOMAIN lay THEN lay[ObjLayer(objs[i])]
           ELSE ObjActive(objs[i]) >> ]

Found == << mill_active, pj_objects, pj_layers, tabs_data >>

\* __init__ with a drawing on the command line and a setup that has mill.active
\* either way: load_drawing, then the GUI
InitPj ==
    /\ SeqIdle
    /\ CfgIdle
    /\ CalcIdle
    /\ WriterIdle
    /\ fn_name = "idle"
    /\ fn_arg = <<>>
    /\ fn_idx = 0
    /\ fn_res = <<>>
    /\ EdIdle
    /\ GlIdle
    /\ SimIdle
    /\ pj_status = "INIT"
    /\ pj_pc = "idle"
    /\ mill_active \in BOOLEAN
    /\ \E d \in PjDrawings :
        /\ pj_layers = PreparedLayers(d)
        /\ pj_objects = udate_tabs_data(PreparedObjects(d, mill_active))[1]
        /\ tabs_data = udate_tabs_data(PreparedObjects(d, mill_active))[2]
    /\ pj_event = <<"load_drawing", None, "INIT", FALSE>>
    /\ pj_before = <<>>

\* timerEvent, lines 433-434
PjTimerEvent ==
    /\ pj_pc = "idle"
    /\ pj_status = "INIT"
    /\ pj_status' = "READY"
    /\ UNCHANGED <<pj_pc, mill_active, pj_layers, pj_objects, tabs_data, pj_event, pj_before>>
    /\ UNCHANGED restOfPj

\* _toolbar_load_drawing with a drawing that loads: load_drawing, update_table,
\* global_changed(0) with the widgets as they are, update_drawing
PjToolbarLoadDrawing ==
    /\ pj_pc = "idle"
    /\ \E d \in PjDrawings :
        /\ pj_status' = "INIT"
        /\ pj_layers' = PreparedLayers(d)
        /\ tabs_data' = udate_tabs_data(PreparedObjects(d, mill_active))[2]
        /\ LET r == global_changed("INIT", mill_active, mill_active,
                                   udate_tabs_data(PreparedObjects(d, mill_active))[1])
           IN  /\ mill_active' = r[1]
               /\ pj_objects' = r[2]
    /\ pj_event' = <<"load_drawing", None, pj_status, TRUE>>
    /\ pj_before' = <<>>
    /\ UNCHANGED pj_pc
    /\ UNCHANGED restOfPj

\* global_changed, called by the check box of mill.active going to w (by another
\* widget: w is the value it has)
PjGlobalChanged ==
    /\ pj_pc = "idle"
    /\ \E w \in BOOLEAN :
        LET r == global_changed(pj_status, mill_active, w, pj_objects)
        IN  /\ mill_active' = r[1]
            /\ pj_objects' = r[2]
            /\ pj_event' = <<"global_changed", w, pj_status, r[3]>>
    /\ pj_before' = Found
    /\ UNCHANGED <<pj_status, pj_pc, pj_layers, tabs_data>>
    /\ UNCHANGED restOfPj

\* object_changed, called by the check box of mill.active of an object
PjObjectChanged ==
    /\ pj_pc = "idle"
    /\ \E i \in DOMAIN pj_objects :
        LET r == object_changed(pj_status, pj_objects, i, ~ObjActive(pj_objects[i]))
        IN  /\ pj_objects' = r[1]
            /\ pj_event' = <<"object_changed", i, pj_status, r[2]>>
    /\ pj_before' = Found
    /\ UNCHANGED <<pj_status, pj_pc, mill_active, pj_layers, tabs_data>>
    /\ UNCHANGED restOfPj

\* toggle_layer for a row of the layer table, with its global_changed(0)
PjToggleLayer ==
    /\ pj_pc = "idle"
    /\ \E l \in DOMAIN pj_layers :
        LET lay == ToggledLayers(pj_layers, l)
            r == global_changed(pj_status, mill_active, mill_active,
                                LayerActive(lay, pj_objects))
        IN  /\ pj_layers' = lay
            /\ mill_active' = r[1]
            /\ pj_objects' = r[2]
            /\ pj_event' = <<"toggle_layer", l, pj_status, r[3]>>
    /\ pj_before' = Found
    /\ UNCHANGED <<pj_status, pj_pc, tabs_data>>
    /\ UNCHANGED restOfPj

\* the start of a handler that sets the status to "CHANGE": a loaded setup has
\* mill.active either way, a selected tool or material leaves it
PjChangeBegin ==
    /\ pj_pc = "idle"
    /\ \E h \in ChangeHandlers :
        /\ pj_pc' = h
        /\ mill_active' \in (IF h \in {"tools_select", "materials_select"}
                             THEN {mill_active} ELSE BOOLEAN)
        /\ pj_event' = <<"begin", h, pj_status, FALSE>>
    /\ pj_status' = "CHANGE"
    /\ pj_before' = <<>>
    /\ UNCHANGED <<pj_layers, pj_objects, tabs_data>>
    /\ UNCHANGED restOfPj

\* update_global_setup inside such a handler: a widget that is set to another value
\* calls global_changed, the widgets showing the setup
PjWidgetSignal ==
    /\ pj_pc # "idle"
    /\ LET r == global_changed(pj_status, mill_active, mill_active, pj_objects)
       IN  /\ mill_active' = r[1]
           /\ pj_objects' = r[2]
           /\ pj_event' = <<"global_changed", mill_active, pj_status, r[3]>>
    /\ pj_before' = Found
    /\ UNCHANGED <<pj_status, pj_pc, pj_layers, tabs_data>>
    /\ UNCHANGED restOfPj

\* the rest of such a handler: update_table, global_changed(0) in the two that load
\* a setup, update_drawing, and the status "READY"
PjChangeEnd ==
    /\ pj_pc # "idle"
    /\ LET r == IF pj_pc \in {"tools_select", "materials_select"}
                THEN << mill_active, pj_objects, FALSE >>
                ELSE global_changed(pj_status, mill_active, mill_active, pj_objects)
       IN  /\ mill_active' = r[1]
           /\ pj_objects' = r[2]
    /\ pj_status' = "READY"
    /\ pj_pc' = "idle"
    /\ pj_event' = <<"end", pj_pc, pj_status, TRUE>>
    /\ pj_before' = <<>>
    /\ UNCHANGED <<pj_layers, tabs_data>>
    /\ UNCHANGED restOfPj

NextPj ==
    \/ PjTimerEvent \/ PjToolbarLoadDrawing \/ PjGlobalChanged \/ PjObjectChanged
    \/ PjToggleLayer \/ PjChangeBegin \/ PjWidgetSignal \/ PjChangeEnd

SpecPj == InitPj /\ [][NextPj]_vars


\* ------------------------------------------------------------------ simulation
\*
\* The tool of the simulation moves along the lines draw_machinecode_path has put
\* into simulation_data, at most one unit of length per paintGL. Positions are on
\* one axis.

MaxSimData == 3
MaxSimPos == 2

\* what draw_machinecode_path can leave in simulation_data
SimData == SeqsUpTo(0..MaxSimPos, MaxSimData)

\* calc_distance3d on the one axis
SimDist(a, b) == IF a < b THEN b - a ELSE a - b

\* paintGL, lines 306-311: the position drawn, one unit from last_pos towards
\* next_pos if that is a unit or more away
SimNextPos(last, to) ==
    IF SimDist(last, to) >= 1
    THEN (IF to > last THEN last + 1 ELSE last - 1)
    ELSE to

\* paintGL, lines 306-311: pdist >= 1.0, the position drawn is next_pos
SimArrived(last, to) == SimDist(last, to) <= 1

\* paintGL, lines 333-340
SimAdvance(sim, data) == IF sim < Len(data) - 1 THEN sim + 1 ELSE -1

\* the GUI with a drawing, after the first timerEvent has run update_drawing
InitSim ==
    /\ SeqIdle
    /\ CfgIdle
    /\ CalcIdle
    /\ WriterIdle
    /\ fn_name = "idle"
    /\ fn_arg = <<>>
    /\ fn_idx = 0
    /\ fn_res = <<>>
    /\ EdIdle
    /\ GlIdle
    /\ PjIdle
    /\ simulation = -1
    /\ simulation_last = 0
    /\ simulation_data \in SimData
    /\ sim_event = <<"update_drawing", -1>>

\* _toolbar_simulate
ToolbarSimulate ==
    /\ simulation' = IF simulation = -1 THEN 0 ELSE -1
    /\ simulation_last' = IF simulation = -1 THEN 0 ELSE simulation_last
    /\ sim_event' = <<"_toolbar_simulate", simulation>>
    /\ UNCHANGED simulation_data
    /\ UNCHANGED restOfSim

\* paintGL with a simulation running, lines 303-340; simulation_data[sim_step] outside
\* the list raises IndexError and the paint ends there
PaintGL ==
    /\ simulation >= 0
    /\ IF simulation < Len(simulation_data)
       THEN LET next_pos == simulation_data[simulation + 1]
            IN  /\ simulation_last' = SimNextPos(simulation_last, next_pos)
                /\ simulation' = IF SimArrived(simulation_last, next_pos)
                                 THEN SimAdvance(simulation, simulation_data)
                                 ELSE simulation
       ELSE UNCHANGED <<simulation, simulation_last>>
    /\ sim_event' = <<"paintGL", simulation>>
    /\ UNCHANGED simulation_data
    /\ UNCHANGED restOfSim

\* update_drawing, lines 1100-1109, outside the repair selector: draw_machinecode_path
\* empties simulation_data and fills it from the machine commands of this
\* recalculation
SimUpdateDrawing ==
    /\ simulation_data' \in SimData
    /\ sim_event' = <<"update_drawing", simulation>>
    /\ UNCHANGED <<simulation, simulation_last>>
    /\ UNCHANGED restOfSim

NextSim == ToolbarSimulate \/ PaintGL \/ SimUpdateDrawing

SpecSim == InitSim /\ [][NextSim]_vars


\* ------------------------------------------------------------------ properties

PolyIds == 1..Len(polylines)

Milled(n) == \E k \in 1..Len(milling) : milling[k] = n

\* active, and on a level the level loop visits
InRange(n) == polylines[n].mill.active /\ polylines[n].level \in 0..maxOuter

\* all output of polyline n is out: header, passes and the retract after them
Finished(n) == Milled(n) /\ ~(nearest_idx = n /\ pc \in {"pass", "retract"})

\* vertex k (1-based) of polyline n, read from its arrays
Vertex(n, k) == <<polylines[n].vertex_data[1][k], polylines[n].vertex_data[2][k]>>
VertexBulge(n, k) == polylines[n].vertex_data[3][k]
NumVertices(n) == Len(polylines[n].vertex_data[1])

\* the objects of the header lines, in output order
RECURSIVE HeaderObjs(_)
HeaderObjs(k) ==
    IF k = 0 THEN <<>>
    ELSE HeaderObjs(k - 1) \o (IF gcode[k].cmd = "header" THEN <<gcode[k].obj>> ELSE <<>>)

\* C1: levels are processed from maxOuter down to 0: whenever a line of polyline b is
\* in the output, every active polyline a of a higher level within 0..maxOuter has all
\* its output (header, passes, retract) before that line; inner contours come first.
C1_InnerLevelsFirst ==
    \A j \in 1..Len(gcode) :
        LET b == gcode[j].obj
        IN  b # 0 =>
            \A a \in PolyIds :
                (InRange(a) /\ polylines[a].level > polylines[b].level) =>
                    /\ Finished(a)
                    /\ \E i \in 1..(j - 1) : gcode[i].cmd = "header" /\ gcode[i].obj = a
                    /\ \A i \in 1..Len(gcode) : gcode[i].obj = a => i < j

\* two polylines of different levels were both milled
C1_Witness ==
    /\ pc = "done"
    /\ \E a, b \in PolyIds :
        Milled(a) /\ Milled(b) /\ polylines[a].level > polylines[b].level

\* C3: every selection takes the entry point of least distance from the tool position
\* (the origin at first) among the entry points of the unvisited active polylines of
\* the level: all vertices of a closed polyline, first and last point of an open one;
\* the first met in iteration order wins a tie; the milling order is the selection order.
C3_GreedyNearest ==
    /\ \A s \in 1..Len(selections) :
        LET sel == selections[s]
            visited == { selections[t].idx : t \in 1..(s - 1) }
            Unvisited(n) == /\ n \notin visited
                            /\ polylines[n].mill.active
                            /\ polylines[n].level = sel.lvl
            Entries(n) == IF polylines[n].closed THEN 1..NumVertices(n)
                          ELSE {1, NumVertices(n)}
            best == calc_distance(sel.from, Vertex(sel.idx, sel.point + 1))
        IN  /\ s = 1 => sel.from = <<0, 0>>
            /\ Unvisited(sel.idx)
            /\ (sel.point + 1) \in Entries(sel.idx)
            /\ \A n \in PolyIds : Unvisited(n) =>
                \A k \in Entries(n) :
                    LET d == calc_distance(sel.from, Vertex(n, k))
                    IN  /\ d >= best
                        /\ d = best => (n > sel.idx \/ (n = sel.idx /\ k >= sel.point + 1))
    /\ milling = [s \in 1..Len(selections) |-> selections[s].idx]
    /\ HeaderObjs(Len(gcode)) = milling

\* a selection with a tie between entry points of two polylines
C3_Witness ==
    \E s \in 1..Len(selections) :
        LET sel == selections[s]
        IN  \E n \in PolyIds \ {sel.idx} :
                /\ \A t \in 1..(s - 1) : selections[t].idx # n
                /\ polylines[n].mill.active /\ polylines[n].level = sel.lvl
                /\ \E k \in {1, NumVertices(n)} :
                     calc_distance(sel.from, Vertex(n, k))
                       = calc_distance(sel.from, Vertex(sel.idx, sel.point + 1))

\* C9: every active polyline of a level in 0..maxOuter is milled exactly once, and no
\* other polyline is milled: the visited marks are distinct, each milled polyline has
\* one header, nothing is output for an inactive polyline, and at the end none is left.
C9_MilledExactlyOnce ==
    /\ \A i, j \in 1..Len(milling) : i # j => milling[i] # milling[j]
    /\ \A n \in PolyIds :
        /\ Milled(n) => InRange(n)
        /\ Cardinality({ i \in 1..Len(gcode) : gcode[i].cmd = "header" /\ gcode[i].obj = n })
             = (IF Milled(n) THEN 1 ELSE 0)
    /\ \A i \in 1..Len(gcode) : gcode[i].obj # 0 => InRange(gcode[i].obj)
    /\ pc = "done" => \A n \in PolyIds : InRange(n) => Milled(n)

\* a finished run that milled a polyline and left an inactive one alone
C9_Witness ==
    /\ pc = "done"
    /\ Len(milling) >= 1
    /\ \E n \in PolyIds : ~polylines[n].mill.active

\* the selection record of a milled polyline
SelOf(n) == selections[CHOOSE s \in 1..Len(selections) : selections[s].idx = n]

IsCut(i) == gcode[i].cmd \in CutCmds

\* C5: the move from a vertex to the next one in traversal order (the closing move of
\* a closed polyline included) is G01, G02 or G03 by the bulge stored at the vertex it
\* starts from: zero, negative or positive.
C5_BulgeDecidesCommand ==
    \A i \in 1..Len(gcode) :
        (IsCut(i) /\ gcode[i].fi # gcode[i].ti) =>
            LET m   == gcode[i]
                sel == SelOf(m.obj)
                n   == Len(sel.pts)
                b   == sel.pts[m.fi][3]
            IN  /\ \/ m.ti = m.fi + 1
                   \/ (polylines[m.obj].closed /\ m.fi = n /\ m.ti = 1)
                /\ m.from = XY(sel.pts[m.fi])
                /\ m.to = XY(sel.pts[m.ti])
                /\ (polylines[m.obj].closed \/ sel.point = 0) =>
                      b = VertexBulge(m.obj, ((sel.point + m.fi - 1) % n) + 1)
                /\ b = 0 => m.cmd = "G01"
                /\ b < 0 => m.cmd = "G02"
                /\ b > 0 => m.cmd = "G03"

\* a pass with a straight move, a clockwise arc and a counter-clockwise closing arc
C5_Witness ==
    /\ \E i \in 1..Len(gcode) : gcode[i].fi # gcode[i].ti /\ gcode[i].cmd = "G01"
    /\ \E i \in 1..Len(gcode) : gcode[i].fi # gcode[i].ti /\ gcode[i].cmd = "G02"
    /\ \E i \in 1..Len(gcode) : gcode[i].fi > gcode[i].ti /\ gcode[i].cmd = "G03"

\* C6: a closed polyline is traversed from its vertex nearest to the tool: its point
\* list is the original one rotated to that vertex, order and bulges kept, and every
\* pass starts there and ends with the closing move back to it.
C6_ClosedStartsAtNearestVertex ==
    \A s \in 1..Len(selections) :
        LET sel == selections[s]
            idx == sel.idx
            n   == NumVertices(idx)
        IN  polylines[idx].closed =>
            /\ Len(sel.pts) = n
            /\ \A k \in 1..n :
                 LET o == ((sel.point + k - 1) % n) + 1
                 IN  sel.pts[k] = <<Vertex(idx, o)[1], Vertex(idx, o)[2], VertexBulge(idx, o)>>
            /\ \A k \in 1..n :
                 calc_distance(sel.from, Vertex(idx, k))
                   >= calc_distance(sel.from, Vertex(idx, sel.point + 1))
            /\ \A i \in 1..Len(gcode) :
                 (gcode[i].cmd = "depth" /\ gcode[i].obj = idx) =>
                    /\ Len(gcode) >= i + n + 2
                    /\ \A j \in (i + 2)..(i + n + 2) : IsCut(j) /\ gcode[j].obj = idx
                    /\ gcode[i + 2].from = Vertex(idx, sel.point + 1)
                    /\ gcode[i + n + 2].to = Vertex(idx, sel.point + 1)
                    /\ gcode[i + n + 2].from = XY(sel.pts[n])
                    /\ (Len(gcode) > i + n + 2 => ~IsCut(i + n + 3))

\* a closed polyline entered at another vertex than its first one, fully milled
C6_Witness ==
    /\ pc = "done"
    /\ \E s \in 1..Len(selections) :
        polylines[selections[s].idx].closed /\ selections[s].point > 0

\* C7: an open polyline whose last point is nearer to the tool than its first one is
\* traversed in reverse, each move with the negated bulge of the original segment
\* between the same two vertices; otherwise it is traversed as stored.
C7_OpenReversedFromFarEnd ==
    \A s \in 1..Len(selections) :
        LET sel == selections[s]
            idx == sel.idx
            n   == NumVertices(idx)
            df  == calc_distance(sel.from, Vertex(idx, 1))
            dl  == calc_distance(sel.from, Vertex(idx, n))
        IN  ~polylines[idx].closed =>
            /\ Len(sel.pts) = n
            /\ IF dl < df
               THEN /\ sel.point = n - 1
                    /\ \A k \in 1..n : XY(sel.pts[k]) = Vertex(idx, n + 1 - k)
                    /\ \A k \in 1..(n - 1) : sel.pts[k][3] = -VertexBulge(idx, n - k)
                    /\ \A i \in 1..Len(gcode) :
                         (IsCut(i) /\ gcode[i].obj = idx /\ gcode[i].fi # gcode[i].ti) =>
                            LET m == gcode[i]
                                b == VertexBulge(idx, n - m.fi)
                            IN  /\ m.ti = m.fi + 1
                                /\ m.from = Vertex(idx, n + 1 - m.fi)
                                /\ m.to = Vertex(idx, n - m.fi)
                                /\ b = 0 => m.cmd = "G01"
                                /\ b > 0 => m.cmd = "G02"
                                /\ b < 0 => m.cmd = "G03"
               ELSE /\ sel.point = 0
                    /\ \A k \in 1..n :
                         sel.pts[k] = <<Vertex(idx, k)[1], Vertex(idx, k)[2], VertexBulge(idx, k)>>

\* a reversed open polyline of three vertices whose two segments are arcs of opposite
\* direction, fully milled
C7_Witness ==
    /\ pc = "done"
    /\ \E s \in 1..Len(selections) :
        LET idx == selections[s].idx
        IN  /\ ~polylines[idx].closed
            /\ selections[s].point = 2
            /\ VertexBulge(idx, 1) > 0
            /\ VertexBulge(idx, 2) < 0

LastCut == CHOOSE i \in 1..Len(gcode) : IsCut(i) /\ \A j \in (i + 1)..Len(gcode) : ~IsCut(j)

\* the exit point of a selection, from the polyline's own arrays
ExitVertex(sel) ==
    IF polylines[sel.idx].closed THEN Vertex(sel.idx, sel.point + 1)
    ELSE IF sel.point # 0 THEN Vertex(sel.idx, 1)
    ELSE Vertex(sel.idx, NumVertices(sel.idx))

\* C8: after a polyline is milled the search goes on from its exit point: the start
\* vertex of a closed polyline, the last traversed point of an open one, which is where
\* its last cutting move ended.
C8_SearchFromExitPoint ==
    /\ (pc \in {"select", "done"} /\ Len(selections) > 0) =>
          /\ last_pos = ExitVertex(selections[Len(selections)])
          /\ last_pos = gcode[LastCut].to
          /\ gcode[LastCut].obj = selections[Len(selections)].idx
    /\ \A s \in 2..Len(selections) : selections[s].from = ExitVertex(selections[s - 1])

\* a second polyline was searched from the far end of an open polyline milled before
C8_Witness ==
    /\ Len(selections) = 2
    /\ ~polylines[selections[1].idx].closed
    /\ selections[2].from # <<0, 0>>
    /\ selections[2].from # XY(selections[1].pts[1])

\* the pass depths of polyline n among the first k lines: its (- Depth: -) lines
RECURSIVE DepthsOf(_, _)
DepthsOf(n, k) ==
    IF k = 0 THEN <<>>
    ELSE DepthsOf(n, k - 1)
         \o (IF gcode[k].cmd = "depth" /\ gcode[k].obj = n THEN <<gcode[k].zn>> ELSE <<>>)

PassDepths(n) == DepthsOf(n, Len(gcode))

ClampTo(x, target) == IF x < target THEN target ELSE x

\* C2 as stated: the pass depths start at step clamped to depth, each next one is the
\* one before plus step clamped to depth, they decrease strictly, none is deeper than
\* depth, and the last one of a finished polyline is depth.
C2_AsStated ==
    \A n \in PolyIds :
        LET ds == PassDepths(n)
            st == polylines[n].mill.step
            tg == polylines[n].mill.depth
        IN  /\ Len(ds) >= 1 => ds[1] = ClampTo(st, tg)
            /\ \A k \in 2..Len(ds) : ds[k] = ClampTo(ds[k - 1] + st, tg) /\ ds[k] < ds[k - 1]
            /\ \A k \in 1..Len(ds) : ds[k] >= tg
            /\ Finished(n) => (Len(ds) >= 1 /\ ds[Len(ds)] = tg)

\* C2 (amended): as stated up to the pass that reaches depth; without helix_mode the
\* sequence ends there, with helix_mode depth is passed exactly once more, so the
\* sequence decreases strictly except for that one repetition at its end.
C2_PassDepths ==
    \A n \in PolyIds :
        LET ds == PassDepths(n)
            st == polylines[n].mill.step
            tg == polylines[n].mill.depth
            hx == polylines[n].mill.helix_mode
            Repeat(k) == hx /\ ds[k - 1] = tg /\ ds[k] = tg /\ (k > 2 => ds[k - 2] > tg)
        IN  /\ Len(ds) >= 1 => ds[1] = ClampTo(st, tg)
            /\ \A k \in 2..Len(ds) :
                 \/ (ds[k - 1] > tg /\ ds[k] = ClampTo(ds[k - 1] + st, tg) /\ ds[k] < ds[k - 1])
                 \/ (Repeat(k) /\ k = Len(ds))
            /\ \A k \in 1..Len(ds) : ds[k] >= tg
            /\ Finished(n) =>
                 /\ Len(ds) >= 1 /\ ds[Len(ds)] = tg
                 /\ hx => (Len(ds) >= 2 /\ Repeat(Len(ds)))
                 /\ ~hx => \A k \in 1..(Len(ds) - 1) : ds[k] > tg

\* a helix polyline finished with a clamped second pass and the repeated last depth
C2_Witness ==
    \E n \in PolyIds :
        /\ Finished(n)
        /\ polylines[n].mill.helix_mode
        /\ polylines[n].mill.step = -2
        /\ PassDepths(n) = <<-2, -3, -3>>

\* line j is a cutting move of the pass whose (- Depth: -) line is line i
InPass(i, j) ==
    /\ i < j
    /\ IsCut(j)
    /\ \A m \in (i + 1)..j : gcode[m].cmd \notin {"depth", "header"}

\* the XY distance cut in lines i+1..j
RECURSIVE CutTravel(_, _)
CutTravel(i, j) ==
    IF j <= i THEN 0
    ELSE CutTravel(i, j - 1)
         + (IF IsCut(j) THEN calc_distance(gcode[j].from, gcode[j].to) ELSE 0)

PassLast(i) == CHOOSE j \in 1..Len(gcode) : InPass(i, j) /\ \A m \in (j + 1)..Len(gcode) : ~InPass(i, m)

\* the pass of depth line i is cut at the flat Z d
FlatPass(i, d) ==
    /\ \A j \in 1..Len(gcode) : InPass(i, j) => gcode[j].zn = d * gcode[j].zd
    /\ \E j \in (i + 1)..Len(gcode) :
         gcode[j].cmd = "G01Z" /\ gcode[j].zn = d /\ \A m \in (i + 1)..j : ~IsCut(m)

\* the pass of depth line i ramps Z linearly with the travelled distance from ld to d
RampPass(i, ld, d) ==
    LET total == CutTravel(i, PassLast(i))
    IN  /\ \A j \in 1..Len(gcode) : InPass(i, j) =>
             /\ gcode[j].zd > 0
             /\ gcode[j].zn * total = gcode[j].zd * (ld * total + CutTravel(i, j) * (d - ld))
        /\ \E j \in (i + 1)..Len(gcode) :
             gcode[j].cmd = "G01Z" /\ gcode[j].zn = ld /\ \A m \in (i + 1)..j : ~IsCut(m)

\* the index of the k-th (- Depth: -) line of polyline n
DepthLineIdx(n, k) ==
    CHOOSE i \in 1..Len(gcode) :
        gcode[i].cmd = "depth" /\ gcode[i].obj = n /\ Len(DepthsOf(n, i)) = k

C10_StepNegativeAtSequencer ==
    \A i \in 1..Len(kernel_steps) : kernel_steps[i] < 0 /\ kernel_steps[i] <= StepFloor

\* C11: a depth shallower than the step-down is corrected before the sequencer runs:
\* no object the sequencer gets has a depth above (shallower than) its step, so the
\* sequencer has nothing to correct.
C11_DepthNotShallowerThanStepAtSequencer ==
    /\ Len(kernel_depths) = Len(kernel_steps)
    /\ \A i \in 1..Len(kernel_steps) : kernel_depths[i] <= kernel_steps[i]

\* ------------------------------------------------------------------ properties of the recalculation

\* C12: when the configured plugin is neither gcode_linuxcnc nor hpgl, run_calculation
\* ends the process with status 1, the machine commands stay the ones it found, and
\* nothing runs after the exit (no retry).
C12_UnknownPluginIsFatal ==
    [][ /\ phase # "exited"
        /\ (calc_ran' /\ calc_setup'.plugin \notin KnownPlugins)
              => /\ phase' = "exited"
                 /\ exit_status' = 1
                 /\ machine_cmd' = calc_before'.cmd ]_vars

\* an unknown plugin ended the process while an earlier command stream was published
C12_Witness ==
    /\ calc_ran
    /\ calc_setup.plugin \notin KnownPlugins
    /\ phase = "exited"
    /\ exit_status = 1
    /\ machine_cmd # NoMachineCmd

\* C13: whenever run_calculation has stopped, by return or by failure, minMax, offsets
\* and machine_cmd derive from the same input: the offsets are the ones of the objects
\* and the setup, minMax is the one of these objects, and the machine commands are the
\* ones of these offsets.
C13_ResultsFromSameInput ==
    calc_ran =>
        /\ minMax = objects2minmax(obj_segments)
        /\ offsets = PolylineOffsets(calc_setup, obj_segments)
        /\ machine_cmd = MachineCmd(calc_setup, offsets)

\* the workpiece zero lies at the origin of the bounding box mm
ZeroAtOrigin(zero, mm) ==
    /\ zero = "bottomLeft" => mm[1] = 0 /\ mm[2] = 0
    /\ zero = "bottomRight" => mm[3] = 0 /\ mm[2] = 0
    /\ zero = "topLeft" => mm[1] = 0 /\ mm[4] = 0
    /\ zero = "topRight" => mm[3] = 0 /\ mm[4] = 0
    /\ zero = "center" => mm[1] + mm[3] = 0 /\ mm[2] + mm[4] = 0

\* objs is from, moved by one common shift (the one of the first end point)
Translated(objs, from) ==
    LET dx == objs[1][1].start[1] - from[1][1].start[1]
        dy == objs[1][1].start[2] - from[1][1].start[2]
    IN  objs = move_objects(from, dx, dy)

RECURSIVE LastNamed(_, _)
LastNamed(axis, k) ==
    IF k = 0 THEN None
    ELSE IF pp_calls[k][axis] # None THEN pp_calls[k][axis]
    ELSE LastNamed(axis, k - 1)

\* call k names a coordinate other than the one last named for its axis, or an arc centre
SaysSomething(k) ==
    \/ \E axis \in 2..4 :
          pp_calls[k][axis] # None /\ pp_calls[k][axis] # LastNamed(axis, k - 1)
    \/ ArgI(pp_calls[k]) # None
    \/ ArgJ(pp_calls[k]) # None

\* the lines call k appended
LinesOfCall(k) == { n \in 1..Len(pp_gcode) : pp_gcode[n].call = k }

\* the lines appear in the order of the calls, each with its method's G word
InCallOrder ==
    /\ \A n \in 1..Len(pp_gcode) :
          /\ pp_gcode[n].call \in 1..Len(pp_calls)
          /\ pp_gcode[n].cmd = GWord(Method(pp_calls[pp_gcode[n].call]))
    /\ \A n \in 1..(Len(pp_gcode) - 1) : pp_gcode[n].call < pp_gcode[n + 1].call

\* C15 as stated: every call of move, linear, arc_cw or arc_ccw appends exactly one
\* G00/G01/G02/G03 line, and the lines appear in the order of the calls.
C15_AsStated ==
    /\ InCallOrder
    /\ \A k \in 1..Len(pp_calls) : Cardinality(LinesOfCall(k)) = 1

\* C15: every call of move, linear, arc_cw or arc_ccw appends at most one line, with
\* the G word of its method, and the lines appear in the order of the calls; a call
\* appends no line exactly when every coordinate it names is the one last named for
\* that axis and it names no arc centre.
C15_OneLinePerCallThatSaysSomething ==
    /\ InCallOrder
    /\ \A k \in 1..Len(pp_calls) :
          Cardinality(LinesOfCall(k)) = (IF SaysSomething(k) THEN 1 ELSE 0)

\* a move was repeated and left no line, after one that did
C15_Witness ==
    /\ Len(pp_calls) = 2
    /\ Len(pp_gcode) = 1
    /\ ArgX(pp_calls[1]) # None
    /\ Method(pp_calls[2]) = "linear"
    /\ ArgX(pp_calls[2]) = ArgX(pp_calls[1])
    /\ ~SaysSomething(2)

\* ------------------------------------------- properties of the functions of calc.py

\* where the segments of the objects are: <<object, position>>
Places(objs) == { p \in (1..Len(objs)) \X (1..MaxSegments) : p[2] <= Len(objs[p[1]].segments) }

\* C16: segments2objects partitions its input: every input segment is in
\* exactly one object, joining the same two points, and its object field is the
\* id of that object; in an object each segment starts where the one before it
\* ends; an object is closed exactly when the end of its last segment matches
\* the start of its first
C16_Segments2ObjectsPartitions ==
    fn_name = "segments2objects" =>
        /\ \A i \in 1..Len(fn_arg) :
            \E p \in Places(fn_res) :
                /\ fn_res[p[1]].segments[p[2]].nr = i
                /\ {fn_res[p[1]].segments[p[2]].start, fn_res[p[1]].segments[p[2]].end}
                       = {fn_arg[i].start, fn_arg[i].end}
                /\ \A q \in Places(fn_res) :
                       fn_res[q[1]].segments[q[2]].nr = i => q = p
        /\ Cardinality(Places(fn_res)) = Len(fn_arg)
        /\ \A p \in Places(fn_res) : fn_res[p[1]].segments[p[2]].object = p[1] - 1
        /\ \A o \in 1..Len(fn_res) :
            LET segs == fn_res[o].segments
            IN  /\ segs # <<>>
                /\ \A k \in 1..(Len(segs) - 1) : fuzy_match(segs[k].end, segs[k + 1].start)
                /\ fn_res[o].closed <=> fuzy_match(segs[Len(segs)].end, segs[1].start)

\* two objects come out, one of them closed, and one segment was turned round
C16_Witness ==
    /\ fn_name = "segments2objects"
    /\ Len(fn_res) = 2
    /\ \E o \in 1..2 : fn_res[o].closed /\ Len(fn_res[o].segments) = 2
    /\ \E o \in 1..2 : ~fn_res[o].closed
    /\ \E p \in Places(fn_res) :
           LET s == fn_res[p[1]].segments[p[2]]
           IN  s.start = fn_arg[s.nr].start /\ s.start # s.end

\* the two end points of a segment, as fuzy_match sees them
EndPoints(s) ==
    { <<Round2(s.start[1]), Round2(s.start[2])>>, <<Round2(s.end[1]), Round2(s.end[2])>> }

Duplicates(s, t) == EndPoints(s) = EndPoints(t)

\* the ways the result is the input with some segments left out
Embeddings(arg, res) ==
    { f \in [1..Len(res) -> 1..Len(arg)] :
        /\ \A a, b \in 1..Len(res) : a < b => f[a] < f[b]
        /\ \A k \in 1..Len(res) : res[k] = arg[f[k]] }

KeptBy(f) == { f[k] : k \in DOMAIN f }

\* C17 as stated: clean_segments removes only duplicates (fuzzily the same two
\* end points), keeps the later one of them, and keeps every other segment in
\* its order
C17_AsStated ==
    fn_name = "clean_segments" =>
        \E f \in Embeddings(fn_arg, fn_res) :
            \A i \in 1..Len(fn_arg) :
                /\ i \notin KeptBy(f) =>
                       \E j \in (i + 1)..Len(fn_arg) : Duplicates(fn_arg[i], fn_arg[j])
                /\ (\A j \in (1..Len(fn_arg)) \ {i} : ~Duplicates(fn_arg[i], fn_arg[j]))
                       => i \in KeptBy(f)

\* C17: clean_segments keeps the order of what it keeps; a segment it removes
\* has a later duplicate or is a line lying on another line of the input that
\* is not its duplicate; a segment it keeps has no later duplicate
C17_RemovesDuplicatesAndOverlaidLines ==
    fn_name = "clean_segments" =>
        \E f \in Embeddings(fn_arg, fn_res) :
            \A i \in 1..Len(fn_arg) :
                LET later == \E j \in (i + 1)..Len(fn_arg) : Duplicates(fn_arg[i], fn_arg[j])
                    onOther ==
                        \E j \in (1..Len(fn_arg)) \ {i} :
                            /\ ~Duplicates(fn_arg[i], fn_arg[j])
                            /\ Overlaid(fn_arg[i], fn_arg[j])
                IN  IF i \in KeptBy(f) THEN ~later ELSE later \/ onOther

\* a duplicate and a line lying on another one are removed, one segment stays
C17_Witness ==
    /\ fn_name = "clean_segments"
    /\ Len(fn_arg) = 3
    /\ Len(fn_res) = 1
    /\ Duplicates(fn_arg[1], fn_arg[3])
    /\ fn_arg[1] # fn_arg[3]
    /\ ~Duplicates(fn_arg[2], fn_arg[3])
    /\ Overlaid(fn_arg[2], fn_arg[3])

\* C18: clean_segments is idempotent: applied to its own result it returns it
C18_CleanSegmentsIdempotent ==
    [][ fn_name' = "clean_segments twice" => fn_res' = fn_res ]_vars

\* the first application removed something and left something
C18_Witness ==
    /\ fn_name = "clean_segments twice"
    /\ fn_res # <<>>
    /\ Len(fn_res) < Len(fn_arg)

\* C19: reverse_object reverses the order of the segments, swaps start and end
\* of each and negates each bulge; applied twice it gives the original back,
\* up to the sign of a zero bulge
C19_ReverseObject ==
    /\ fn_name = "reverse_object" =>
        /\ Len(fn_res) = Len(fn_arg)
        /\ \A i \in 1..Len(fn_arg) :
            LET s == fn_arg[Len(fn_arg) + 1 - i]
            IN  /\ fn_res[i].start = s.end
                /\ fn_res[i].end = s.start
                /\ fn_res[i].bulge.abs = s.bulge.abs
                /\ fn_res[i].bulge.neg # s.bulge.neg
    /\ fn_name = "reverse_object twice" =>
        /\ Len(fn_res) = Len(fn_arg)
        /\ \A i \in 1..Len(fn_arg) :
            /\ fn_res[i].start = fn_arg[i].start
            /\ fn_res[i].end = fn_arg[i].end
            /\ BulgeEq(fn_res[i].bulge, fn_arg[i].bulge)

\* an object of three segments, one of them an arc, was reversed twice
C19_Witness ==
    /\ fn_name = "reverse_object twice"
    /\ Len(fn_arg) = 3
    /\ fn_arg[1] # fn_arg[3]
    /\ \E i \in 1..3 : fn_arg[i].bulge.abs # 0

\* C20: rotate_list(l, k) is l[k:] followed by l[:k]: element i of the result
\* is element (i + k) mod len(l) of l, so the cyclic order stays; and
\* rotate_list(rotate_list(l, k), len(l) - k) is l
C20_RotateList ==
    /\ fn_name = "rotate_list" =>
        /\ Len(fn_res) = Len(fn_arg)
        /\ \A i \in 1..Len(fn_arg) :
               fn_res[i] = fn_arg[((i - 1 + fn_idx) % Len(fn_arg)) + 1]
    /\ fn_name = "rotate_list back" => fn_res = fn_arg

\* a list of three different elements was rotated by one and back
C20_Witness ==
    /\ fn_name = "rotate_list back"
    /\ fn_idx = 1
    /\ Len(fn_arg) = 3
    /\ Cardinality({fn_arg[1], fn_arg[2], fn_arg[3]}) = 3

\* the two values lie in the same hundredth: both round to h hundredths
SameHundredth(a, b) ==
    \E h \in -2..2 : /\ 10 * h - 5 <= a /\ a < 10 * h + 5
                    /\ 10 * h - 5 <= b /\ b < 10 * h + 5

\* C21 as stated: fuzy_match(p1, p2) is true exactly when |p1.x - p2.x| < 0.01 and
\* |p1.y - p2.y| < 0.01
C21_AsStated ==
    fn_name = "fuzy_match" =>
        (fn_res <=> /\ Abs(fn_arg[1][1] - fn_arg[2][1]) < 10
                    /\ Abs(fn_arg[1][2] - fn_arg[2][2]) < 10)

\* C21: fuzy_match(p1, p2) is true exactly when on each axis, compared on its own,
\* the two coordinates round to the same hundredth; then they differ by less than 0.01
C21_FuzyMatchSameHundredth ==
    fn_name = "fuzy_match" =>
        /\ fn_res <=> /\ SameHundredth(fn_arg[1][1], fn_arg[2][1])
                       /\ SameHundredth(fn_arg[1][2], fn_arg[2][2])
        /\ fn_res => /\ Abs(fn_arg[1][1] - fn_arg[2][1]) < 10
                      /\ Abs(fn_arg[1][2] - fn_arg[2][2]) < 10

\* two points 0.008 apart on x, on the two sides of zero, match
C21_Witness ==
    /\ fn_name = "fuzy_match"
    /\ fn_res = TRUE
    /\ fn_arg[1][1] = -4
    /\ fn_arg[2][1] = 4
    /\ fn_arg[1][2] # fn_arg[2][2]


\* ------------------------------------------------------------------ properties of the editor

\* object j is a closed contour and every point of object i lies inside its square,
\* strictly between its least and greatest x and y (the contours of the drawings are
\* squares with their sides along the axes)
Around(objs, j, i) ==
    /\ objs[j].closed
    /\ \A p \in EdPoints(objs[i]) :
         /\ \E q \in EdPoints(objs[j]) : q[1] < p[1]
         /\ \E q \in EdPoints(objs[j]) : p[1] < q[1]
         /\ \E q \in EdPoints(objs[j]) : q[2] < p[2]
         /\ \E q \in EdPoints(objs[j]) : p[2] < q[2]

\* the largest number of objects around one object
MaxNesting(objs) ==
    LET around(i) == Cardinality({ j \in (DOMAIN objs) \ {i} : Around(objs, j, i) })
    IN  IF DOMAIN objs = {} THEN 0
        ELSE CHOOSE m \in { around(i) : i \in DOMAIN objs } :
                 \A i \in DOMAIN objs : around(i) <= m

\* C22: find_tool_offsets returns the largest number of outer objects around one of
\* the objects it is given, and the value it returned last is the maxOuter from which
\* the recalculation counts the levels down
C22_MaxOuterIsMaxNesting ==
    /\ ed_call # NoCall => ed_call.result = MaxNesting(ed_call.objects)
    /\ ed_from # None => ed_from = ed_call.result /\ ed_from = ed_maxOuter

\* three contours inside one another were loaded, the levels are counted from 2, also
\* after one of the contours was deleted
C22_Witness ==
    /\ ed_from = 2
    /\ Cardinality(DOMAIN ed_call.objects) = 3
    /\ Cardinality(DOMAIN ed_objects) = 2

\* each segment starts where the one before it ends
Chained(segs) == \A i \in 1..(Len(segs) - 1) : segs[i].end = segs[i + 1].start

\* C30: a start point picked on a segment, not at one of its ends, splits the segment
\* in two (old start to the point, the point to old end): the object has one segment
\* more, the other segments are as they were and the segments are still chained; a
\* point picked at an end of the segment leaves the segments as they were
C30_PickKeepsChain ==
    (ed_pick # NoPick /\ ed_pick.obj \in DOMAIN ed_objects) =>
        LET before == ed_pick.before
            after  == ed_objects[ed_pick.obj].segments
            k      == ed_pick.seg
            pt     == ed_pick.point
        IN  IF pt \notin {before[k].start, before[k].end}
            THEN /\ Len(after) = Len(before) + 1
                 /\ after[k].start = before[k].start /\ after[k].end = pt
                 /\ after[k + 1].start = pt /\ after[k + 1].end = before[k].end
                 /\ \A j \in 1..(k - 1) : after[j] = before[j]
                 /\ \A j \in (k + 1)..Len(before) : after[j + 1] = before[j]
                 /\ Chained(after)
            ELSE after = before

\* the second side of a closed contour was split half way
C30_Witness ==
    /\ ed_pick # NoPick
    /\ ed_pick.obj \in DOMAIN ed_objects
    /\ ed_objects[ed_pick.obj].closed
    /\ ed_pick.seg = 2
    /\ Len(ed_objects[ed_pick.obj].segments) = 5
    /\ ed_pick.point \notin {ed_pick.before[2].start, ed_pick.before[2].end}


\* ------------------------------------------------------------------ properties of the run

\* the selections made on level l so far: the rounds of its loop that found a polyline
SelectionsAt(l) == Cardinality({ k \in 1..Len(selections) : selections[k].lvl = l })

\* the rounds of the selection loops and the passes of the depth loops stay within their
\* bounds: a level has no more selections than polylines (one more round finds nothing
\* and ends the loop); of the passes of a polyline only the last one, and with helix_mode
\* the one before it, are at the target depth, all others above it
C23_LoopsBounded ==
    /\ \A l \in 0..MaxLevel :
           SelectionsAt(l) <= Cardinality({ n \in PolyIds : polylines[n].level = l })
    /\ \A n \in PolyIds :
           LET ds == PassDepths(n)
               over == IF polylines[n].mill.helix_mode THEN 2 ELSE 1
           IN  /\ \A k \in 1..(Len(ds) - over) : ds[k] > polylines[n].mill.depth
               /\ \A k \in 2..Len(ds) : ds[k] <= ds[k - 1]
               /\ Len(ds) <= MaxDepth + 2

\* C23: polylines2gcode terminates when every active polyline has a step below 0: a
\* level's selection loop ends after at most one round more than the level has
\* polylines, a polyline's depth loop ends once the pass depth has reached the target
C23_Terminates == []C23_LoopsBounded /\ <>(pc = "done")

\* the run is over; two polylines were milled, one of them in more than one pass
C23_Witness ==
    /\ pc = "done"
    /\ Len(milling) = 2
    /\ \E n \in PolyIds : Len(PassDepths(n)) >= 2

\* the number of vertices of polyline n
VertexCount(n) == Len(polylines[n].vertex_data[1])

\* the cutting moves of the pass whose (- Depth: -) line is line i
CutsOfPass(i) == { j \in 1..Len(gcode) : InPass(i, j) }

\* C24 as stated: every cutting move of a pass runs from one vertex to the next one in
\* traversal order, so a pass over an open polyline of n vertices has n - 1 cutting
\* moves and a pass over a closed one has n, and no cutting move starts and ends at the
\* same vertex.
C24_AsStated ==
    /\ \A j \in 1..Len(gcode) :
         IsCut(j) =>
            /\ gcode[j].fi # gcode[j].ti
            /\ \/ gcode[j].ti = gcode[j].fi + 1
               \/ /\ polylines[gcode[j].obj].closed
                  /\ gcode[j].fi = VertexCount(gcode[j].obj)
                  /\ gcode[j].ti = 1
    /\ \A i \in 1..Len(gcode) :
         gcode[i].cmd = "depth" =>
            Cardinality(CutsOfPass(i)) =
                (IF polylines[gcode[i].obj].closed THEN VertexCount(gcode[i].obj)
                 ELSE VertexCount(gcode[i].obj) - 1)

\* C25: the last pass of every polyline is cut at the constant Z of its target depth,
\* with helix_mode too; in every pass Z is never below the depth of the pass and the
\* last move of the pass ends at that depth; with helix_mode the pass before the last
\* one is the first at the target depth and ramps down to it.
C25_LastPassFlatAtTarget ==
    /\ \A i \in 1..Len(gcode) :
         gcode[i].cmd = "depth" =>
            /\ \A j \in CutsOfPass(i) :
                 gcode[j].zd > 0 /\ gcode[j].zn >= gcode[i].zn * gcode[j].zd
            /\ gcode[PassLast(i)].zn = gcode[i].zn * gcode[PassLast(i)].zd
    /\ \A n \in PolyIds :
         Finished(n) =>
            LET ds     == PassDepths(n)
                k      == Len(ds)
                target == polylines[n].mill.depth
            IN  /\ k >= 1
                /\ ds[k] = target
                /\ FlatPass(DepthLineIdx(n, k), target)
                /\ polylines[n].mill.helix_mode =>
                      /\ k >= 2
                      /\ ds[k - 1] = target
                      /\ \A m \in 1..(k - 2) : ds[m] > target
                      /\ RampPass(DepthLineIdx(n, k - 1),
                                  IF k = 2 THEN 0 ELSE ds[k - 2], target)

\* a finished polyline with helix_mode, step -1 and target -2: a ramp to -1, a ramp
\* to -2 and a flat pass at -2
C25_Witness ==
    \E n \in PolyIds :
        /\ Finished(n)
        /\ polylines[n].mill.helix_mode
        /\ polylines[n].closed
        /\ PassDepths(n) = <<-1, -2, -2>>
        /\ FlatPass(DepthLineIdx(n, 3), -2)

MotionCmds == CutCmds \cup {"G00XY", "G01Z", "G00Z"}

\* the last cutting move of polyline n
LastCutOf(n) ==
    CHOOSE i \in 1..Len(gcode) :
        /\ IsCut(i) /\ gcode[i].obj = n
        /\ \A j \in (i + 1)..Len(gcode) : ~(IsCut(j) /\ gcode[j].obj = n)

\* C26: every G00 X.. Y.. line, those of gcode_begin and gcode_end included, has a
\* G00 Z{fast_move_z} line before it with no line that moves the tool in between, and
\* the line after the last cutting move of every polyline is that retract.
C26_RapidsOnlyRetracted ==
    /\ \A i \in 1..Len(gcode) :
         gcode[i].cmd = "G00XY" =>
            \E j \in 1..(i - 1) :
                /\ gcode[j].cmd = "G00Z"
                /\ \A m \in (j + 1)..(i - 1) : gcode[m].cmd \notin MotionCmds
    /\ \A n \in PolyIds :
         Finished(n) =>
            /\ LastCutOf(n) < Len(gcode)
            /\ gcode[LastCutOf(n) + 1] = RetractLine(n)

\* the run is over with the rapid move home as its last line, after an open polyline
\* cut in two passes and a closed one
C26_Witness ==
    /\ pc = "done"
    /\ gcode[Len(gcode)] = RapidLine(0, <<0, 0>>)
    /\ \E n \in PolyIds : ~polylines[n].closed /\ Len(PassDepths(n)) >= 2
    /\ \E n \in PolyIds : polylines[n].closed /\ Len(PassDepths(n)) >= 1

\* ------------------------------------------------------------------ properties of the writer's setup

\* the last call made on the writer was a motion call
LastCallIsMotion ==
    /\ pp_calls # <<>>
    /\ \A k \in 1..Len(pp_setup) : pp_setup[k].at < Len(pp_calls)

\* two fractions name the same number
SameValue(v, w) == v[1] * w[2] = w[1] * v[2]

\* C27 as stated: after a call of move, linear, arc_cw or arc_ccw that follows any
\* calls of unit, machine_offsets and the four, the machine is, on every axis the call
\* names, at (the value the call passes + the soft offset now) * the scale now.
C27_AsStated ==
    LastCallIsMotion =>
        LET c == pp_calls[Len(pp_calls)]
        IN  /\ ArgX(c) # None =>
                  /\ pp_mach[1] # None
                  /\ SameValue(Scaled(pp_mach[1], pp_scale), OutValue(ArgX(c), 1))
            /\ ArgY(c) # None =>
                  /\ pp_mach[2] # None
                  /\ SameValue(Scaled(pp_mach[2], pp_scale), OutValue(ArgY(c), 2))
            /\ ArgZ(c) # None =>
                  /\ pp_mach[3] # None
                  /\ SameValue(Scaled(pp_mach[3], pp_scale), OutValue(ArgZ(c), 3))

\* setup call j wrote hard offsets other than zero
WroteOffsets(j) == pp_setup[j].method = "machine_offsets" /\ pp_setup[j].lines # <<>>

\* C28 as stated: a program_end that comes after a machine_offsets call which wrote
\* G10 L2 P1 and G54 appends the reset line and then M02, whatever was called in
\* between; a program_end with no such call before it appends M02 alone.
C28_AsStated ==
    \A k \in 1..Len(pp_setup) :
        pp_setup[k].method = "program_end" =>
            pp_setup[k].lines =
                (IF \E j \in 1..(k - 1) : WroteOffsets(j)
                 THEN <<"G10 L2 P1 X0 Y0 Z0", "M02">>
                 ELSE <<"M02">>)

\* ------------------------------------------------------------------ properties of the propagation

\* what global_changed leaves in an object for a key: the new global value if that
\* differs from the old one and the object held the old one, else what the object held
Followed(held, old, new) == IF new # old /\ held = old THEN new ELSE held

C31_TogglesExclusive ==
    /\ selector_mode \in SelectorModes \cup {""}
    /\ gl_event[1] = "toggle" =>
         LET x == gl_event[2]  from == gl_event[3]  ret == gl_event[4]
         IN  /\ from = "" => selector_mode = x /\ ret
             /\ from = x => selector_mode = "" /\ ~ret
             /\ from \notin {"", x} => selector_mode = from /\ ~ret

\* the toggle of one mode was called while another was active
C31_Witness ==
    /\ gl_event[1] = "toggle"
    /\ gl_event[3] = "start"
    /\ gl_event[2] = "delete"
    /\ selector_mode = "start"

\* C32: while a selector mode is active the view is the 2D view: ortho is True and
\* rot_x, rot_y, rot_z are 0.
C32_SelectorImplies2d ==
    selector_mode # "" => ortho /\ rot = <<0, 0, 0>>

\* the mouse moved with button 4 held while a selector mode was active, after the
\* view had been turned
C32_Witness ==
    /\ selector_mode = "start"
    /\ gl_event[1] = "move"
    /\ mbutton = 4
    /\ rot_last # <<0, 0, 0>>
    /\ ortho

\* C33 as stated: the checked selector action is the one of the active selector mode,
\* and none is checked in mode "", after any toolbar actions, loading a drawing included.
C33_AsStated ==
    toolbuttons = (IF selector_mode = "" THEN {} ELSE {selector_mode})

\* ------------------------------------------------------------------ properties of the nesting in use

\* C35 as stated: the maxOuter a recalculation uses and the outer objects of every
\* object are those find_tool_offsets gives for the objects as they are at that
\* recalculation, after a load, a changed setting, a pick and a delete alike.
C35_AsStated ==
    ed_maxOuter # None =>
        /\ ed_from = find_tool_offsets(ed_objects).max_outer
        /\ \A i \in DOMAIN ed_objects :
             ed_objects[i].outer_objects = find_tool_offsets(ed_objects).objects[i].outer_objects

\* ------------------------------------------------------------------ properties of layers and setup

\* C34: a global_changed or object_changed that finds the status "CHANGE" leaves the
\* global setup and the objects as they were and runs neither find_tool_offsets nor
\* update_drawing, and no handler that set the status to "CHANGE" has returned while
\* the status is still "CHANGE".
C34_ChangeBlocksAndEnds ==
    /\ (pj_event[1] \in {"global_changed", "object_changed"} /\ pj_event[3] = "CHANGE") =>
          /\ mill_active = pj_before[1]
          /\ pj_objects = pj_before[2]
          /\ ~pj_event[4]
    /\ pj_pc = "idle" => pj_status # "CHANGE"
    /\ pj_event[1] = "end" => pj_status = "READY" /\ pj_event[3] = "CHANGE"

\* a widget called global_changed while a setup with another mill.active was being
\* loaded
C34_Witness ==
    /\ pj_pc = "_toolbar_load_setup_from"
    /\ pj_event[1] = "global_changed"
    /\ pj_event[3] = "CHANGE"
    /\ \E i \in DOMAIN pj_objects : ObjActive(pj_objects[i]) # mill_active

\* whether every object on a disabled layer BREAKS: or _TABS is inactive and listed
\* in the tab data
TabObjectsOff(objs, lay, tabs) ==
    \A i \in DOMAIN objs :
        (IsTabLayer(ObjLayer(objs[i])) /\ ~lay[ObjLayer(objs[i])]) =>
            /\ ~ObjActive(objs[i])
            /\ \E k \in DOMAIN tabs : tabs[k] = i

\* C36 as stated: after prepare_segments every object on a disabled layer BREAKS: or
\* _TABS has mill.active False and its segments in the tab data, and a global_changed
\* that finds it so leaves it so.
C36_AsStated ==
    /\ pj_event[1] = "load_drawing" => TabObjectsOff(pj_objects, pj_layers, tabs_data)
    /\ (pj_event[1] = "global_changed"
          /\ TabObjectsOff(pj_before[2], pj_before[3], pj_before[4])) =>
       TabObjectsOff(pj_objects, pj_layers, tabs_data)

\* C37 as stated: toggle_layer for the layer l flips the flag of l and of no other
\* layer, gives the objects on l the new flag as mill.active and leaves mill.active
\* of the objects on other layers as it was.
C37_AsStated ==
    pj_event[1] = "toggle_layer" =>
        LET l == pj_event[2] IN
        /\ pj_layers = [ pj_before[3] EXCEPT ![l] = ~@ ]
        /\ \A i \in DOMAIN pj_objects :
             IF ObjLayer(pj_objects[i]) = l
             THEN ObjActive(pj_objects[i]) = pj_layers[l]
             ELSE pj_objects[i] = pj_before[2][i]

\* ------------------------------------------------------------------ properties of the simulation

\* C38 as stated: project["simulation"] is -1 or an index into simulation_data,
\* whatever the order of the simulate toggle, the paints and the recalculations, and a
\* paint leaves it as it was, one further, or at -1 after the last entry.
C38_AsStated ==
    /\ simulation = -1 \/ (0 <= simulation /\ simulation < Len(simulation_data))
    /\ sim_event[1] = "paintGL" =>
          \/ simulation = sim_event[2]
          \/ simulation = sim_event[2] + 1
          \/ simulation = -1 /\ sim_event[2] = Len(simulation_data) - 1

====
